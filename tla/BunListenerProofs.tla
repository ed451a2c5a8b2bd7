-------------------------- MODULE BunListenerProofs --------------------------
(***************************************************************************)
(* What the Bun listener guarantees behind its lazy wrapper, after any     *)
(* number of calls and failures: proved from one inductive invariant of    *)
(* the listener and one of the wrapper.                                    *)
(***************************************************************************)
EXTENDS LazyListener, TLAPS

-----------------------------------------------------------------------------
(* The inductive invariant of the listener.                                *)

Flags ==
    /\ closed \in BOOLEAN /\ startupReady \in BOOLEAN /\ readyForQuery \in BOOLEAN
    /\ reconnectTimer \in BOOLEAN /\ healthTimer \in BOOLEAN /\ activeError \in BOOLEAN
    /\ listening \in BOOLEAN /\ stale = FALSE
Values ==
    /\ status \in {"connecting", "connected", "reconnecting", "closed"}
    /\ connectionPhase \in {"socket", "ssl-request", "tls-handshake", "startup", "ready"}
    /\ link \in {"none", "connecting", "open", "ended", "broken"}
    /\ server \in {"off", "ssl", "tls", "startup", "idle", "busy"}
Queued ==
    /\ queryQueue \in Seq(Queries)
    /\ activeQuery \in Queries \cup {None} /\ asked \in Queries \cup {None}
    /\ outcome \in [Notifies -> Outcomes]
    /\ executed \in Seq(Notifies)

\* The timer never exists beside a socket or an attempt.
Single ==
    /\ reconnectTimer => link = "none"
    /\ ~closed /\ link = "none" => reconnectTimer

\* Nothing of a connection is left without a socket.
Fresh ==
    /\ link \in {"none", "connecting"} =>
            server = "off" /\ wire = <<>> /\ activeQuery = None /\ ~readyForQuery /\ ~listening
    /\ link = "connecting" => ~startupReady
    /\ ~startupReady => activeQuery = None /\ ~readyForQuery
    /\ activeQuery = None => ~activeError

\* What is on its way says nothing that the server has not sent in its turn:
\* an answer is only awaited for a query, and nothing else is on its way then.
Carried ==
    /\ wire \in Seq(Messages)
    /\ Len(wire) <= 1 \/ (Len(wire) = 2 /\ wire[1] = "error" /\ wire[2] = "ready")
Protocol ==
    /\ server \in {"ssl", "startup", "busy"} => wire = <<>>
    /\ server \in {"ssl", "tls", "startup"} => ~startupReady
    /\ server = "ssl" => connectionPhase # "tls-handshake"
    /\ server = "tls" /\ connectionPhase = "tls-handshake" => wire = <<>>
    /\ server = "tls" /\ wire # <<>> => wire[1] = "S"
    /\ wire # <<>> /\ wire[1] \in {"S", "N", "secured", "unsecured", "unsupported"} => ~startupReady
    /\ readyForQuery => wire = <<>> /\ activeQuery = None
    /\ server = "busy" <=> asked # None
    /\ server = "busy" =>
            /\ link \in {"open", "ended"}
            /\ asked = activeQuery \/ (closed /\ activeQuery = None)
            /\ ~activeError /\ ~readyForQuery /\ startupReady
    /\ asked = Listen /\ ~closed => link = "open"

\* A query that is answered without an error has been executed.
Done(q) == /\ q = Listen => listening
           /\ q.kind = "notify" => q.id \in ToSet(executed)
Answers ==
    /\ wire # <<>> /\ wire[1] = "ready" /\ activeQuery # None /\ ~activeError => Done(activeQuery)
    /\ HasChannels /\ status = "connected" /\ ~closed => listening

\* Every end of a connection to come has been counted as a failure.
Failing ==
    \/ link \in {"ended", "broken"} \/ activeError
    \/ \E i \in DOMAIN wire : wire[i] \in {"N", "unsecured", "unsupported", "error"}
Counted ==
    /\ faults \in 0..MaxFaults /\ reconnectAttempts \in Nat /\ reconnectAttempts <= faults
    /\ ~closed /\ Failing => reconnectAttempts + 1 <= faults

\* The queries stand in line in the order of the calls of notify(), each once;
\* LISTEN never waits.
InLine(q) ==
    /\ \A i \in DOMAIN q : q[i].kind = "notify" <=> q[i].id # 0
    /\ \A i, j \in DOMAIN q : i < j /\ q[i].id # 0 /\ q[j].id # 0 => q[i].id < q[j].id
    /\ \A i, j \in DOMAIN q : q[i] = q[j] => i = j
Line ==
    /\ InLine(Unanswered)
    /\ \A i \in DOMAIN queryQueue : queryQueue[i] # Listen
    /\ closed => Unanswered = <<>>
    /\ asked.id # 0 <=> asked.kind = "notify"

\* A promise is pending as long as its query stands in line.
Promised ==
    /\ \A n \in Notifies : outcome[n] = "pending" <=> NotifyQuery(n) \in ToSet(Unanswered)
    /\ \A m, n \in Notifies : m < n /\ outcome[n] # "unused" => outcome[m] # "unused"

\* What the server has executed comes before what it will.
Ordered ==
    /\ \A i, j \in DOMAIN executed : i < j => executed[i] < executed[j]
    /\ \A i \in DOMAIN executed :
        /\ outcome[executed[i]] # "unused"
        /\ \A j \in DOMAIN queryQueue : queryQueue[j].id # 0 => executed[i] < queryQueue[j].id
        /\ activeQuery.id # 0 => executed[i] <= activeQuery.id
        /\ asked.id # 0 => executed[i] < asked.id
    /\ asked.id # 0 => outcome[asked.id] # "unused"
    /\ \A n \in Notifies : outcome[n] = "resolved" => n \in ToSet(executed)

Session == Flags /\ Values /\ Single /\ Fresh /\ Carried /\ Protocol /\ Answers /\ Counted
BunInv == Session /\ Queued /\ Line /\ Promised /\ Ordered

-----------------------------------------------------------------------------
(* The inductive invariant of the wrapper.                                 *)

Dormant ==
    /\ status = "connecting" /\ closed = FALSE
    /\ startupReady = FALSE /\ readyForQuery = FALSE /\ connectionPhase = "socket"
    /\ reconnectTimer = FALSE /\ healthTimer = FALSE
    /\ queryQueue = <<>> /\ activeQuery = None /\ activeError = FALSE
    /\ reconnectAttempts = 0
    /\ link = "connecting" /\ wire = <<>>
    /\ server = "off" /\ asked = None /\ listening = FALSE /\ executed = <<>>
    /\ stale = FALSE /\ faults = 0

\* The calls wait in their order, each once; close() drops them.
Waiting ==
    /\ outcome \in [Notifies -> {"unused", "pending", "rejected"}]
    /\ \A m, n \in Notifies : m < n /\ outcome[n] # "unused" => outcome[m] # "unused"
    /\ \A n \in Notifies : outcome[n] = "pending" <=> n \in ToSet(queue) \cup dropped
    /\ ToSet(queue) \cap dropped = {}
    /\ \A i, j \in DOMAIN queue : i < j /\ queue[i] # 0 /\ queue[j] # 0 => queue[i] < queue[j]
    /\ IsInjective(queue)

Wrapped ==
    /\ handle \in {"loading", "set", "failed", "abandoned"}
    /\ queue \in Seq(Notifies \cup {Subscription})
    /\ closedEarly \in BOOLEAN /\ deaf = FALSE /\ dropped \subseteq Notifies
    /\ handler \in {"queued", "on", "off"}
    /\ handle = "set" => queue = <<>> /\ ~closedEarly /\ handler # "queued"
    /\ ~closedEarly => dropped = {}
    /\ handler = "off" => Subscription \notin ToSet(queue)
    /\ handler = "queued" /\ handle = "loading" /\ ~closedEarly => Subscription \in ToSet(queue)

LazyInv ==
    /\ Wrapped
    /\ handle = "set" => BunInv
    /\ handle # "set" => Dormant /\ Waiting

-----------------------------------------------------------------------------
(* Sequences.                                                              *)

LEMMA Rejoined ==
    ASSUME NEW S, NEW q \in Seq(S), q # <<>>
    PROVE  <<Head(q)>> \o Tail(q) = q
  OBVIOUS

LEMMA Appended ==
    ASSUME NEW S, NEW q \in Seq(S), NEW e \in S
    PROVE  /\ Append(q, e) \in Seq(S) /\ Append(q, e) # <<>> /\ Len(Append(q, e)) = Len(q) + 1
           /\ \A i \in 1..Len(q) : Append(q, e)[i] = q[i]
           /\ Append(q, e)[Len(q) + 1] = e
           /\ q = <<>> => Append(q, e) = <<e>>
<1>1. /\ Append(q, e) \in Seq(S) /\ Append(q, e) # <<>> /\ Len(Append(q, e)) = Len(q) + 1
      /\ \A i \in 1..Len(q) : Append(q, e)[i] = q[i]
      /\ Append(q, e)[Len(q) + 1] = e
  OBVIOUS
<1>2. Append(<<>>, e) = <<e>>
  OBVIOUS
<1> QED  BY <1>1, <1>2

\* What is read leaves nothing behind, but for an error with its end.
LEMMA Received ==
    ASSUME Carried, Protocol, NEW m, Read(m)
    PROVE  /\ wire # <<>> /\ wire[1] = m /\ 1 \in DOMAIN wire /\ link \in {"open", "ended", "broken"}
           /\ wire' \in Seq(Messages)
           /\ wire' = <<>> \/ (m = "error" /\ wire' = <<"ready">>)
           /\ server \notin {"ssl", "startup", "busy"} /\ asked = None /\ ~readyForQuery
<1>1. /\ wire \in Seq(Messages) /\ wire # <<>> /\ Head(wire) = m /\ wire' = Tail(wire)
      /\ Len(wire) <= 1 \/ (Len(wire) = 2 /\ wire[1] = "error" /\ wire[2] = "ready")
  BY DEF Read, Carried
<1>2. Len(wire) = 1 \/ (Len(wire) = 2 /\ wire[1] = "error" /\ wire[2] = "ready")
  <2>1. Len(wire) \in Nat /\ Len(wire) # 0
    BY <1>1
  <2>2. Len(wire) <= 1 => Len(wire) = 1
    BY <2>1
  <2> QED  BY <1>1, <2>2
<1>3. wire[1] = m /\ 1 \in DOMAIN wire /\ wire' \in Seq(Messages) /\ Len(wire') = Len(wire) - 1
  BY <1>1
<1>4. wire' = <<>> \/ (m = "error" /\ wire' = <<"ready">>)
  <2>1. CASE Len(wire) = 1
    BY <1>3, <2>1
  <2>2. CASE Len(wire) = 2 /\ wire[1] = "error" /\ wire[2] = "ready"
    <3>1. Len(wire') = 1 /\ wire'[1] = "ready"
      BY <1>1, <1>3, <2>2
    <3>2. wire' = <<"ready">>
      BY <1>3, <3>1
    <3> QED  BY <1>3, <2>2, <3>2
  <2> QED  BY <1>2, <2>1, <2>2
<1>5. /\ link \in {"open", "ended", "broken"}
      /\ server \notin {"ssl", "startup", "busy"} /\ asked = None /\ ~readyForQuery
  BY <1>1 DEF Read, Protocol
<1> QED  BY <1>1, <1>3, <1>4, <1>5
LEMMA QueriesNamed ==
    /\ Listen \in Queries /\ Health \in Queries /\ None \notin Queries
    /\ Listen # None /\ Health # None /\ Listen # Health
    /\ \A n \in Notifies : NotifyQuery(n) \in Queries /\ NotifyQuery(n) \notin {Listen, Health, None}
  BY DEF Listen, Health, None, NotifyQuery, Queries

\* What a flush sends is the head of the queue, which is never LISTEN.
LEMMA HeadOfQueue ==
    ASSUME queryQueue \in Seq(Queries), \A i \in DOMAIN queryQueue : queryQueue[i] # Listen
    PROVE  /\ queryQueue # <<>> => Head(queryQueue) \in Queries \ {Listen, None}
           /\ \A q \in Queries \ {Listen} : Head(Append(queryQueue, q)) \in Queries \ {Listen, None}
           /\ Head(<<Listen>> \o queryQueue) = Listen
<1>1. queryQueue # <<>> => Head(queryQueue) = queryQueue[1] /\ 1 \in DOMAIN queryQueue
  OBVIOUS
<1>2. queryQueue # <<>> => Head(queryQueue) \in Queries \ {Listen, None}
  BY <1>1, QueriesNamed
<1>3. ASSUME NEW q \in Queries \ {Listen}  PROVE Head(Append(queryQueue, q)) \in Queries \ {Listen, None}
  <2>1. CASE queryQueue = <<>>
    BY <2>1, QueriesNamed
  <2>2. CASE queryQueue # <<>>
    <3>1. Head(Append(queryQueue, q)) = Head(queryQueue)
      BY <2>2
    <3> QED  BY <3>1, <2>2, <1>2
  <2> QED  BY <2>1, <2>2
<1>4. Head(<<Listen>> \o queryQueue) = Listen
  BY QueriesNamed
<1> QED  BY <1>2, <1>3, <1>4

-----------------------------------------------------------------------------
(* Each step of the listener keeps the session.                            *)

LEMMA SessionReconnectTimer == ASSUME Session, Queued, Line, ReconnectTimer  PROVE Session'
<1> USE DEF Session
<1> USE DEF ReconnectTimer, MayConnect, StartupReset, peer
<1>4. Flags'
  BY QueriesNamed DEF Flags
<1>5. Values'
  BY QueriesNamed DEF Values
<1>6. Single'
  BY QueriesNamed DEF Single, Values
<1>7. Fresh'
  BY QueriesNamed DEF Fresh, Values, Flags, Single
<1>8. Carried'
  BY QueriesNamed DEF Carried
<1>9. Protocol'
  BY QueriesNamed DEF Protocol, Fresh, Flags, Values, Single
<1>10. Answers'
  BY QueriesNamed DEF Answers, Protocol, Fresh, Done
<1>11. Counted'
  BY QueriesNamed DEF Counted, Failing, Fresh, Protocol
<1> QED  BY <1>4, <1>5, <1>6, <1>7, <1>8, <1>9, <1>10, <1>11

LEMMA SessionOpen == ASSUME Session, Queued, Line, Open  PROVE Session'
<1> USE DEF Session
<1> USE DEF Open
<1>4. Flags'
  BY QueriesNamed DEF Flags
<1>5. Values'
  BY QueriesNamed DEF Values
<1>6. Single'
  BY QueriesNamed DEF Single, Values
<1>7. Fresh'
  BY QueriesNamed DEF Fresh, Values, Flags
<1>8. Carried'
  BY QueriesNamed DEF Carried
<1>9. Protocol'
  BY QueriesNamed DEF Protocol, Fresh, Flags, Values
<1>10. Answers'
  BY QueriesNamed DEF Answers, Protocol, Fresh, Done
<1>11. Counted'
  BY QueriesNamed DEF Counted, Failing, Fresh, Protocol
<1> QED  BY <1>4, <1>5, <1>6, <1>7, <1>8, <1>9, <1>10, <1>11

LEMMA SessionConnectFails == ASSUME Session, Queued, Line, ConnectFails  PROVE Session'
<1> USE DEF Session
<1> USE DEF ConnectFails, Fault, Retry, ScheduleReconnect, EmitReconnect, RejectActive, RejectAll, client, peer
<1>4. Flags'
  BY QueriesNamed DEF Flags
<1>5. Values'
  BY QueriesNamed DEF Values
<1>6. Single'
  BY QueriesNamed DEF Single, Values
<1>7. Fresh'
  BY QueriesNamed DEF Fresh, Values, Flags
<1>8. Carried'
  BY QueriesNamed DEF Carried
<1>9. Protocol'
  BY QueriesNamed DEF Protocol, Fresh, Flags, Values
<1>10. Answers'
  BY QueriesNamed DEF Answers, Protocol, Fresh, Done
<1>11. Counted'
  <2>1. faults' \in 0..MaxFaults /\ reconnectAttempts' \in Nat /\ reconnectAttempts' <= faults'
    BY FaultAssumption DEF Counted
  <2>2. ~closed' => ~Failing'
    BY DEF Fresh, Failing
  <2> QED  BY <2>1, <2>2 DEF Counted
<1> QED  BY <1>4, <1>5, <1>6, <1>7, <1>8, <1>9, <1>10, <1>11

LEMMA SessionSocketClose == ASSUME Session, Queued, Line, SocketClose  PROVE Session'
<1> USE DEF Session
<1> USE DEF SocketClose, ScheduleReconnect, EmitReconnect, RejectActive, RejectAll
<1>4. Flags'
  BY QueriesNamed DEF Flags
<1>5. Values'
  BY QueriesNamed DEF Values
<1>6. Single'
  BY QueriesNamed DEF Single, Values
<1>7. Fresh'
  BY QueriesNamed DEF Fresh, Values, Flags
<1>8. Carried'
  BY QueriesNamed DEF Carried
<1>9. Protocol'
  BY QueriesNamed DEF Protocol, Fresh, Flags, Values
<1>10. Answers'
  BY QueriesNamed DEF Answers, Protocol, Fresh, Done
<1>11. Counted'
  BY QueriesNamed DEF Counted, Failing, Fresh, Protocol
<1> QED  BY <1>4, <1>5, <1>6, <1>7, <1>8, <1>9, <1>10, <1>11

LEMMA SessionNegotiate == ASSUME Session, Queued, Line, Negotiate  PROVE Session'
<1> USE DEF Session
<1>2. PICK m \in {"S", "secured", "N", "unsecured", "unsupported"} : Read(m)
  BY DEF Negotiate
<1>3. /\ wire # <<>> /\ wire[1] = m /\ 1 \in DOMAIN wire /\ link \in {"open", "ended", "broken"}
      /\ wire' = <<>>
      /\ server \notin {"ssl", "startup", "busy"} /\ asked = None /\ ~readyForQuery
  BY <1>2, Received
<1> USE DEF Negotiate, StartPostgresStartup, Ended
<1>4. Flags'
  BY QueriesNamed, <1>3 DEF Flags
<1>5. Values'
  BY QueriesNamed, <1>3 DEF Values
<1>6. Single'
  BY QueriesNamed, <1>3 DEF Single, Values
<1>7. Fresh'
  BY QueriesNamed, <1>3 DEF Fresh, Values, Flags
<1>8. Carried'
  BY QueriesNamed, <1>3 DEF Carried
<1>9. Protocol'
  BY QueriesNamed, <1>3 DEF Protocol, Fresh, Flags, Values
<1>10. Answers'
  BY QueriesNamed, <1>3 DEF Answers, Protocol, Fresh, Done
<1>11. Counted'
  <2>1. Failing' => Failing
    BY <1>2, <1>3 DEF Failing, Read
  <2>2. UNCHANGED <<closed, faults, reconnectAttempts>>
    OBVIOUS
  <2> QED  BY <2>1, <2>2 DEF Counted
<1> QED  BY <1>4, <1>5, <1>6, <1>7, <1>8, <1>9, <1>10, <1>11

LEMMA SessionAnswerReady == ASSUME Session, Queued, Line, AnswerReady  PROVE Session'
<1> USE DEF Session
<1>1. /\ queryQueue # <<>> => Head(queryQueue) \in Queries \ {Listen, None}
      /\ \A q \in Queries \ {Listen} : Head(Append(queryQueue, q)) \in Queries \ {Listen, None}
      /\ Head(<<Listen>> \o queryQueue) = Listen
  BY HeadOfQueue DEF Queued, Line
<1>2. Read("ready")
  BY DEF AnswerReady
<1>3. /\ wire # <<>> /\ wire[1] = "ready" /\ 1 \in DOMAIN wire /\ link \in {"open", "ended", "broken"}
      /\ wire' = <<>>
      /\ server \notin {"ssl", "startup", "busy"} /\ asked = None /\ ~readyForQuery
  BY <1>2, Received
<1> USE DEF AnswerReady, Flush, HasSocket, Registered, MarkConnected, Ended
<1>4. Flags'
  BY QueriesNamed, <1>1, <1>3, OptionAssumption DEF Flags
<1>5. Values'
  BY QueriesNamed, <1>1, <1>3 DEF Values
<1>6. Single'
  BY QueriesNamed, <1>1, <1>3 DEF Single, Values
<1>7. Fresh'
  BY QueriesNamed, <1>1, <1>3 DEF Fresh, Values, Flags
<1>8. Carried'
  BY QueriesNamed, <1>1, <1>3 DEF Carried
<1>9. Protocol'
  BY QueriesNamed, <1>1, <1>3 DEF Protocol, Fresh, Flags, Values
<1>10. Answers'
  BY QueriesNamed, <1>1, <1>3 DEF Answers, Protocol, Fresh, Done
<1>11. Counted'
  BY QueriesNamed, <1>1, <1>3 DEF Counted, Failing, Fresh, Protocol
<1> QED  BY <1>4, <1>5, <1>6, <1>7, <1>8, <1>9, <1>10, <1>11

LEMMA SessionStartupReady == ASSUME Session, Queued, Line, StartupReady  PROVE Session'
<1> USE DEF Session
<1>1. /\ queryQueue # <<>> => Head(queryQueue) \in Queries \ {Listen, None}
      /\ \A q \in Queries \ {Listen} : Head(Append(queryQueue, q)) \in Queries \ {Listen, None}
      /\ Head(<<Listen>> \o queryQueue) = Listen
  BY HeadOfQueue DEF Queued, Line
<1>2. Read("ready")
  BY DEF StartupReady
<1>3. /\ wire # <<>> /\ wire[1] = "ready" /\ 1 \in DOMAIN wire /\ link \in {"open", "ended", "broken"}
      /\ wire' = <<>>
      /\ server \notin {"ssl", "startup", "busy"} /\ asked = None /\ ~readyForQuery
  BY <1>2, Received
<1> USE DEF StartupReady, Flush, HasSocket, EndWhenClosed, MarkConnected, Ended
<1>4. Flags'
  BY QueriesNamed, <1>1, <1>3, OptionAssumption DEF Flags
<1>5. Values'
  BY QueriesNamed, <1>1, <1>3 DEF Values
<1>6. Single'
  BY QueriesNamed, <1>1, <1>3 DEF Single, Values
<1>7. Fresh'
  BY QueriesNamed, <1>1, <1>3 DEF Fresh, Values, Flags
<1>8. Carried'
  BY QueriesNamed, <1>1, <1>3 DEF Carried
<1>9. Protocol'
  BY QueriesNamed, <1>1, <1>3 DEF Protocol, Fresh, Flags, Values
<1>10. Answers'
  BY QueriesNamed, <1>1, <1>3 DEF Answers, Protocol, Fresh, Done
<1>11. Counted'
  BY QueriesNamed, <1>1, <1>3 DEF Counted, Failing, Fresh, Protocol
<1> QED  BY <1>4, <1>5, <1>6, <1>7, <1>8, <1>9, <1>10, <1>11

LEMMA SessionLateReady == ASSUME Session, Queued, Line, LateReady  PROVE Session'
<1> USE DEF Session
<1>1. /\ queryQueue # <<>> => Head(queryQueue) \in Queries \ {Listen, None}
      /\ \A q \in Queries \ {Listen} : Head(Append(queryQueue, q)) \in Queries \ {Listen, None}
      /\ Head(<<Listen>> \o queryQueue) = Listen
  BY HeadOfQueue DEF Queued, Line
<1>2. Read("ready")
  BY DEF LateReady
<1>3. /\ wire # <<>> /\ wire[1] = "ready" /\ 1 \in DOMAIN wire /\ link \in {"open", "ended", "broken"}
      /\ wire' = <<>>
      /\ server \notin {"ssl", "startup", "busy"} /\ asked = None /\ ~readyForQuery
  BY <1>2, Received
<1> USE DEF LateReady, Flush, HasSocket
<1>4. Flags'
  BY QueriesNamed, <1>1, <1>3 DEF Flags
<1>5. Values'
  BY QueriesNamed, <1>1, <1>3 DEF Values
<1>6. Single'
  BY QueriesNamed, <1>1, <1>3 DEF Single, Values
<1>7. Fresh'
  BY QueriesNamed, <1>1, <1>3 DEF Fresh, Values, Flags
<1>8. Carried'
  BY QueriesNamed, <1>1, <1>3 DEF Carried
<1>9. Protocol'
  BY QueriesNamed, <1>1, <1>3 DEF Protocol, Fresh, Flags, Values
<1>10. Answers'
  BY QueriesNamed, <1>1, <1>3 DEF Answers, Protocol, Fresh, Done
<1>11. Counted'
  BY QueriesNamed, <1>1, <1>3 DEF Counted, Failing, Fresh, Protocol
<1> QED  BY <1>4, <1>5, <1>6, <1>7, <1>8, <1>9, <1>10, <1>11

LEMMA SessionPostgresError == ASSUME Session, Queued, Line, PostgresError  PROVE Session'
<1> USE DEF Session
<1>2. Read("error")
  BY DEF PostgresError
<1>3. /\ wire # <<>> /\ wire[1] = "error" /\ 1 \in DOMAIN wire /\ link \in {"open", "ended", "broken"}
      /\ wire' = <<>> \/ wire' = <<"ready">>
      /\ server \notin {"ssl", "startup", "busy"} /\ asked = None /\ ~readyForQuery
  BY <1>2, Received
<1> USE DEF PostgresError, peer
<1>4. Flags'
  BY QueriesNamed, <1>3 DEF Flags
<1>5. Values'
  BY QueriesNamed, <1>3 DEF Values
<1>6. Single'
  BY QueriesNamed, <1>3 DEF Single, Values
<1>7. Fresh'
  BY QueriesNamed, <1>3 DEF Fresh, Values, Flags
<1>8. Carried'
  <2>1. <<"ready">> \in Seq(Messages) /\ Len(<<"ready">>) = 1
    BY DEF Messages
  <2>2. wire' \in Seq(Messages) /\ (wire' = <<>> \/ wire' = <<"ready">>)
    BY <1>2, <1>3, Received
  <2>3. Len(wire') <= 1
    <3>1. CASE wire' = <<>>
      BY <3>1
    <3>2. CASE wire' = <<"ready">>
      BY <3>2
    <3> QED  BY <2>2, <3>1, <3>2
  <2> QED  BY <2>2, <2>3 DEF Carried
<1>9. Protocol'
  BY QueriesNamed, <1>3 DEF Protocol, Fresh, Flags, Values
<1>10. Answers'
  BY QueriesNamed, <1>3 DEF Answers, Protocol, Fresh, Done
<1>11. Counted'
  BY QueriesNamed, <1>3 DEF Counted, Failing, Fresh, Protocol
<1> QED  BY <1>4, <1>5, <1>6, <1>7, <1>8, <1>9, <1>10, <1>11

LEMMA SessionNotify == ASSUME Session, Queued, Line, NEW n \in Notifies, Notify(n)  PROVE Session'
<1> USE DEF Session
<1>1. /\ queryQueue # <<>> => Head(queryQueue) \in Queries \ {Listen, None}
      /\ \A q \in Queries \ {Listen} : Head(Append(queryQueue, q)) \in Queries \ {Listen, None}
      /\ Head(<<Listen>> \o queryQueue) = Listen
  BY HeadOfQueue DEF Queued, Line
<1> USE DEF Notify, Enqueue, Flush, HasSocket, peer
<1>4. Flags'
  BY QueriesNamed, <1>1 DEF Flags
<1>5. Values'
  BY QueriesNamed, <1>1 DEF Values
<1>6. Single'
  BY QueriesNamed, <1>1 DEF Single, Values
<1>7. Fresh'
  BY QueriesNamed, <1>1 DEF Fresh, Values, Flags
<1>8. Carried'
  BY QueriesNamed, <1>1 DEF Carried
<1>9. Protocol'
  BY QueriesNamed, <1>1 DEF Protocol, Fresh, Flags, Values
<1>10. Answers'
  BY QueriesNamed, <1>1 DEF Answers, Protocol, Fresh, Done
<1>11. Counted'
  BY QueriesNamed, <1>1 DEF Counted, Failing, Fresh, Protocol
<1> QED  BY <1>4, <1>5, <1>6, <1>7, <1>8, <1>9, <1>10, <1>11

LEMMA SessionHealthCheck == ASSUME Session, Queued, Line, HealthCheck  PROVE Session'
<1> USE DEF Session
<1>1. /\ queryQueue # <<>> => Head(queryQueue) \in Queries \ {Listen, None}
      /\ \A q \in Queries \ {Listen} : Head(Append(queryQueue, q)) \in Queries \ {Listen, None}
      /\ Head(<<Listen>> \o queryQueue) = Listen
  BY HeadOfQueue DEF Queued, Line
<1> USE DEF HealthCheck, Enqueue, Flush, HasSocket
<1>4. Flags'
  BY QueriesNamed, <1>1 DEF Flags
<1>5. Values'
  BY QueriesNamed, <1>1 DEF Values
<1>6. Single'
  BY QueriesNamed, <1>1 DEF Single, Values
<1>7. Fresh'
  BY QueriesNamed, <1>1 DEF Fresh, Values, Flags
<1>8. Carried'
  BY QueriesNamed, <1>1 DEF Carried
<1>9. Protocol'
  BY QueriesNamed, <1>1 DEF Protocol, Fresh, Flags, Values
<1>10. Answers'
  BY QueriesNamed, <1>1 DEF Answers, Protocol, Fresh, Done
<1>11. Counted'
  BY QueriesNamed, <1>1 DEF Counted, Failing, Fresh, Protocol
<1> QED  BY <1>4, <1>5, <1>6, <1>7, <1>8, <1>9, <1>10, <1>11

LEMMA SessionClose == ASSUME Session, Queued, Line, Close  PROVE Session'
<1> USE DEF Session
<1> USE DEF Close, RejectAll, HasSocket, Ended, peer
<1>4. Flags'
  BY QueriesNamed DEF Flags
<1>5. Values'
  BY QueriesNamed DEF Values
<1>6. Single'
  BY QueriesNamed DEF Single, Values
<1>7. Fresh'
  BY QueriesNamed DEF Fresh, Values, Flags
<1>8. Carried'
  BY QueriesNamed DEF Carried
<1>9. Protocol'
  BY QueriesNamed DEF Protocol, Fresh, Flags, Values
<1>10. Answers'
  BY QueriesNamed DEF Answers, Protocol, Fresh, Done
<1>11. Counted'
  BY QueriesNamed DEF Counted, Failing, Fresh, Protocol
<1> QED  BY <1>4, <1>5, <1>6, <1>7, <1>8, <1>9, <1>10, <1>11

LEMMA SessionSslResponse == ASSUME Session, Queued, Line, SslResponse  PROVE Session'
<1> USE DEF Session
<1> USE DEF SslResponse, Fault, client
<1>1. wire = <<>>
  BY DEF Protocol
<1>2. \/ wire' \in {<<"S">>, <<"secured">>} /\ UNCHANGED faults
      \/ wire' \in {<<"N">>, <<"unsecured">>} /\ faults < MaxFaults /\ faults' = faults + 1
  BY <1>1
<1>3. \E m \in {"S", "N", "secured", "unsecured"} : wire' = <<m>>
  BY <1>2
<1>4. Flags'
  BY QueriesNamed DEF Flags
<1>5. Values'
  BY QueriesNamed DEF Values
<1>6. Single'
  BY QueriesNamed DEF Single, Values
<1>7. Fresh'
  BY QueriesNamed DEF Fresh, Values, Flags
<1>8. Carried'
  BY <1>3 DEF Carried, Messages
<1>9. Protocol'
  BY QueriesNamed, <1>3 DEF Protocol, Fresh, Flags, Values
<1>10. Answers'
  BY QueriesNamed, <1>3 DEF Answers, Protocol, Fresh, Done
<1>11. Counted'
  <2>1. UNCHANGED reconnectAttempts /\ (UNCHANGED faults \/ (faults < MaxFaults /\ faults' = faults + 1))
    OBVIOUS
  <2>2. CASE faults < MaxFaults /\ faults' = faults + 1
    BY <2>1, <2>2, FaultAssumption DEF Counted
  <2>3. CASE UNCHANGED faults
    <3>1. wire' \in {<<"S">>, <<"secured">>} \/ faults' = faults + 1
      BY <1>2
    <3>2. faults \in Int
      BY FaultAssumption DEF Counted
    <3>3. wire' \in {<<"S">>, <<"secured">>}
      BY <2>3, <3>1, <3>2
    <3>4. Failing' => Failing
      BY <3>3 DEF Failing
    <3> QED  BY <2>1, <2>3, <3>4 DEF Counted
  <2> QED  BY <2>1, <2>2, <2>3
<1> QED  BY <1>4, <1>5, <1>6, <1>7, <1>8, <1>9, <1>10, <1>11

LEMMA SessionAdmit == ASSUME Session, Queued, Line, Admit  PROVE Session'
<1> USE DEF Session
<1> USE DEF Admit, client
<1>2. wire' = <<"ready">>
  BY DEF Protocol
<1>4. Flags'
  BY QueriesNamed DEF Flags
<1>5. Values'
  BY QueriesNamed DEF Values
<1>6. Single'
  BY QueriesNamed DEF Single, Values
<1>7. Fresh'
  BY QueriesNamed DEF Fresh, Values, Flags
<1>8. Carried'
  BY <1>2 DEF Carried, Messages
<1>9. Protocol'
  BY QueriesNamed, <1>2 DEF Protocol, Fresh, Flags, Values
<1>10. Answers'
  BY QueriesNamed, <1>2 DEF Answers, Protocol, Fresh, Done
<1>11. Counted'
  BY QueriesNamed DEF Counted, Failing, Fresh, Protocol
<1> QED  BY <1>4, <1>5, <1>6, <1>7, <1>8, <1>9, <1>10, <1>11

LEMMA SessionRefuse == ASSUME Session, Queued, Line, Refuse  PROVE Session'
<1> USE DEF Session
<1> USE DEF Refuse, Fault, client
<1>2. wire' \in {<<"error">>, <<"unsupported">>}
  BY DEF Protocol
<1>4. Flags'
  BY QueriesNamed DEF Flags
<1>5. Values'
  BY QueriesNamed DEF Values
<1>6. Single'
  BY QueriesNamed DEF Single, Values
<1>7. Fresh'
  BY QueriesNamed DEF Fresh, Values, Flags
<1>8. Carried'
  BY <1>2 DEF Carried, Messages
<1>9. Protocol'
  BY QueriesNamed, <1>2 DEF Protocol, Fresh, Flags, Values
<1>10. Answers'
  BY QueriesNamed, <1>2 DEF Answers, Protocol, Fresh, Done
<1>11. Counted'
  <2>1. UNCHANGED reconnectAttempts /\ (UNCHANGED faults \/ (faults < MaxFaults /\ faults' = faults + 1))
    OBVIOUS
  <2>2. CASE faults < MaxFaults /\ faults' = faults + 1
    BY <2>1, <2>2, FaultAssumption DEF Counted
  <2>3. CASE UNCHANGED faults
    <3>1. Failing' => Failing
      BY <1>2, <2>3 DEF Failing
    <3> QED  BY <2>1, <2>3, <3>1 DEF Counted
  <2> QED  BY <2>1, <2>2, <2>3
<1> QED  BY <1>4, <1>5, <1>6, <1>7, <1>8, <1>9, <1>10, <1>11

LEMMA SessionExecute == ASSUME Session, Queued, Line, Execute  PROVE Session'
<1> USE DEF Session
<1> USE DEF Execute, Reachable, Fault, client
<1>1. wire = <<>>
  BY DEF Protocol
<1>2. \/ /\ wire' = <<"ready">> /\ UNCHANGED faults
         /\ listening' = (listening \/ asked = Listen)
         /\ executed' = IF asked.kind = "notify" THEN Append(executed, asked.id) ELSE executed
      \/ /\ wire' = <<"error", "ready">> /\ faults < MaxFaults /\ faults' = faults + 1
         /\ UNCHANGED <<listening, executed>>
  BY <1>1
<1>4. Flags'
  BY QueriesNamed DEF Flags
<1>5. Values'
  BY QueriesNamed DEF Values
<1>6. Single'
  BY QueriesNamed DEF Single, Values
<1>7. Fresh'
  BY QueriesNamed DEF Fresh, Values, Flags
<1>8. Carried'
  BY <1>2 DEF Carried, Messages
<1>9. Protocol'
  BY QueriesNamed DEF Protocol, Fresh, Flags, Values
<1>10. Answers'
  <2>0. HasChannels /\ status' = "connected" /\ ~closed' => listening'
    <3>1. listening => listening'
      BY <1>2 DEF Flags
    <3> QED  BY <3>1 DEF Answers
  <2>1. CASE /\ wire' = <<"ready">>
             /\ listening' = (listening \/ asked = Listen)
             /\ executed' = IF asked.kind = "notify" THEN Append(executed, asked.id) ELSE executed
    <3>1. CASE activeQuery = None
      BY <3>1, <2>0 DEF Answers
    <3>2. CASE activeQuery # None
      <4>1. asked = activeQuery
        BY <3>2 DEF Protocol
      <4>2. activeQuery = Listen => listening'
        BY <4>1, <2>1
      <4>3. activeQuery.kind = "notify" => executed' = Append(executed, activeQuery.id) /\ executed \in Seq(Notifies)
        BY <4>1, <2>1 DEF Queued
      <4>4. activeQuery.kind = "notify" => activeQuery.id \in ToSet(executed')
        <5> SUFFICES ASSUME activeQuery.kind = "notify"
                     PROVE  activeQuery.id \in ToSet(Append(executed, activeQuery.id))
          BY <4>3
        <5>1. activeQuery.id \in Notifies \cup {0}
          BY <3>2 DEF Queued, Queries
        <5>2. /\ Len(executed) + 1 \in DOMAIN Append(executed, activeQuery.id)
              /\ Append(executed, activeQuery.id)[Len(executed) + 1] = activeQuery.id
          BY <4>3
        <5> QED  BY <5>2 DEF ToSet
      <4>5. Done(activeQuery)'
        BY <4>2, <4>4 DEF Done
      <4> QED  BY <2>0, <4>5 DEF Answers
    <3> QED  BY <3>1, <3>2
  <2>2. CASE wire' = <<"error", "ready">>
    BY <2>0, <2>2 DEF Answers
  <2> QED  BY <1>2, <2>1, <2>2
<1>11. Counted'
  <2>1. UNCHANGED reconnectAttempts /\ (UNCHANGED faults \/ (faults < MaxFaults /\ faults' = faults + 1))
    OBVIOUS
  <2>2. CASE faults < MaxFaults /\ faults' = faults + 1
    BY <2>1, <2>2, FaultAssumption DEF Counted
  <2>3. CASE UNCHANGED faults
    <3>1. wire' = <<"ready">> \/ faults' = faults + 1
      BY <1>2
    <3>2. faults \in Int
      BY FaultAssumption DEF Counted
    <3>3. wire' = <<"ready">>
      BY <2>3, <3>1, <3>2
    <3>4. Failing' => Failing
      BY <3>3 DEF Failing
    <3> QED  BY <2>1, <2>3, <3>4 DEF Counted
  <2> QED  BY <2>1, <2>2, <2>3
<1> QED  BY <1>4, <1>5, <1>6, <1>7, <1>8, <1>9, <1>10, <1>11

LEMMA SessionBreak == ASSUME Session, Queued, Line, Break  PROVE Session'
<1> USE DEF Session
<1> USE DEF Break, Fault, client
<1>2. \A i \in DOMAIN wire' : i \in DOMAIN wire /\ wire'[i] = wire[i]
  BY DEF Carried
<1>4. Flags'
  BY QueriesNamed DEF Flags
<1>5. Values'
  BY QueriesNamed DEF Values
<1>6. Single'
  BY QueriesNamed DEF Single, Values
<1>7. Fresh'
  BY QueriesNamed DEF Fresh, Values, Flags
<1>8. Carried'
  BY QueriesNamed DEF Carried
<1>9. Protocol'
  BY QueriesNamed DEF Protocol, Fresh, Flags, Values
<1>10. Answers'
  BY QueriesNamed DEF Answers, Protocol, Fresh, Done
<1>11. Counted'
  BY FaultAssumption DEF Counted
<1> QED  BY <1>4, <1>5, <1>6, <1>7, <1>8, <1>9, <1>10, <1>11

-----------------------------------------------------------------------------
(* The line of queries.                                                    *)

LEMMA SetOfAppended ==
    ASSUME NEW S, NEW q \in Seq(S), NEW e \in S
    PROVE  ToSet(Append(q, e)) = ToSet(q) \cup {e}
<1>1. DOMAIN q = 1..Len(q) /\ DOMAIN Append(q, e) = 1..(Len(q) + 1)
  OBVIOUS
<1>2. (\A i \in 1..Len(q) : Append(q, e)[i] = q[i]) /\ Append(q, e)[Len(q) + 1] = e
  OBVIOUS
<1>3. Len(q) \in Nat
  OBVIOUS
<1>4. ASSUME NEW x \in ToSet(Append(q, e))  PROVE x \in ToSet(q) \cup {e}
  <2>1. PICK i \in 1..(Len(q) + 1) : x = Append(q, e)[i]
    BY <1>1 DEF ToSet
  <2>2. CASE i = Len(q) + 1
    BY <1>2, <2>1, <2>2
  <2>3. CASE i \in 1..Len(q)
    BY <1>1, <1>2, <2>1, <2>3 DEF ToSet
  <2> QED  BY <1>3, <2>1, <2>2, <2>3
<1>5. ASSUME NEW x \in ToSet(q)  PROVE x \in ToSet(Append(q, e))
  <2>1. PICK i \in 1..Len(q) : x = q[i]
    BY <1>1 DEF ToSet
  <2>2. i \in 1..(Len(q) + 1) /\ x = Append(q, e)[i]
    BY <1>2, <1>3, <2>1
  <2> QED  BY <1>1, <2>2 DEF ToSet
<1>6. e \in ToSet(Append(q, e))
  <2>1. Len(q) + 1 \in 1..(Len(q) + 1)
    BY <1>3
  <2> QED  BY <1>1, <1>2, <2>1 DEF ToSet
<1> QED  BY <1>4, <1>5, <1>6

\* A sequence behind one more element.
LEMMA Behind ==
    ASSUME NEW S, NEW q \in Seq(S), NEW e \in S
    PROVE  /\ <<e>> \o q \in Seq(S)
           /\ Len(<<e>> \o q) = Len(q) + 1 /\ DOMAIN (<<e>> \o q) = 1..(Len(q) + 1)
           /\ (<<e>> \o q)[1] = e
           /\ \A i \in 1..Len(q) : i + 1 \in 1..(Len(q) + 1) /\ (<<e>> \o q)[i + 1] = q[i]
           /\ \A i \in 1..(Len(q) + 1) : i # 1 => i - 1 \in 1..Len(q) /\ (<<e>> \o q)[i] = q[i - 1]
           /\ ToSet(<<e>> \o q) = ToSet(q) \cup {e}
<1> DEFINE s == <<e>> \o q
<1>1. <<e>> \in Seq(S) /\ Len(<<e>>) = 1 /\ <<e>>[1] = e
  OBVIOUS
<1>2. Len(q) \in Nat /\ DOMAIN q = 1..Len(q)
  OBVIOUS
<1>3. s \in Seq(S) /\ Len(s) = Len(q) + 1 /\ DOMAIN s = 1..(Len(q) + 1)
  OBVIOUS
<1>4. s[1] = e
  OBVIOUS
<1>5. \A i \in 1..Len(q) : i + 1 \in 1..(Len(q) + 1) /\ s[i + 1] = q[i]
  OBVIOUS
<1>6. \A i \in 1..(Len(q) + 1) : i # 1 => i - 1 \in 1..Len(q) /\ s[i] = q[i - 1]
  OBVIOUS
<1> HIDE DEF s
<1>7. ASSUME NEW x \in ToSet(s)  PROVE x \in ToSet(q) \cup {e}
  <2>1. PICK i \in 1..(Len(q) + 1) : x = s[i]
    BY <1>3 DEF ToSet
  <2>2. CASE i = 1
    BY <1>4, <2>1, <2>2
  <2>3. CASE i # 1
    BY <1>2, <1>6, <2>1, <2>3 DEF ToSet
  <2> QED  BY <2>2, <2>3
<1>8. ASSUME NEW x \in ToSet(q) \cup {e}  PROVE x \in ToSet(s)
  <2>1. CASE x = e
    <3>1. 1 \in DOMAIN s
      BY <1>2, <1>3
    <3> QED  BY <1>4, <2>1, <3>1 DEF ToSet
  <2>2. CASE x \in ToSet(q)
    <3>1. PICK i \in 1..Len(q) : x = q[i]
      BY <1>2, <2>2 DEF ToSet
    <3>2. i + 1 \in DOMAIN s /\ s[i + 1] = x
      BY <1>3, <1>5, <3>1
    <3> QED  BY <3>2 DEF ToSet
  <2> QED  BY <2>1, <2>2
<1>9. ToSet(s) = ToSet(q) \cup {e}
  BY <1>7, <1>8
<1> QED  BY <1>3, <1>4, <1>5, <1>6, <1>9 DEF s

\* The lines that the steps make of a line.
LEMMA LineJoined ==
    ASSUME NEW q \in Seq(Queries), NEW e \in Queries, InLine(q), e \notin ToSet(q),
           e.kind = "notify" <=> e.id # 0,
           \A i \in DOMAIN q : q[i].id # 0 /\ e.id # 0 => q[i].id < e.id
    PROVE  InLine(Append(q, e))
<1> DEFINE s == Append(q, e)
<1>1. DOMAIN q = 1..Len(q) /\ DOMAIN s = 1..(Len(q) + 1) /\ Len(q) \in Nat
  OBVIOUS
<1>2. (\A i \in 1..Len(q) : s[i] = q[i]) /\ s[Len(q) + 1] = e
  OBVIOUS
<1> HIDE DEF s
<1>3. \A i \in DOMAIN s : i = Len(q) + 1 \/ i \in 1..Len(q)
  BY <1>1
<1>4. \A i \in DOMAIN q : q[i] # e
  BY DEF ToSet
<1>5. \A i \in DOMAIN s : s[i].kind = "notify" <=> s[i].id # 0
  BY <1>1, <1>2, <1>3 DEF InLine
<1>6. \A i, j \in DOMAIN s : i < j /\ s[i].id # 0 /\ s[j].id # 0 => s[i].id < s[j].id
  <2> TAKE i, j \in DOMAIN s
  <2> HAVE i < j /\ s[i].id # 0 /\ s[j].id # 0
  <2>1. i \in 1..Len(q)
    BY <1>1, <1>3
  <2>2. CASE j = Len(q) + 1
    BY <1>1, <1>2, <2>1, <2>2
  <2>3. CASE j \in 1..Len(q)
    BY <1>1, <1>2, <2>1, <2>3 DEF InLine
  <2> QED  BY <1>3, <2>2, <2>3
<1>7. \A i, j \in DOMAIN s : s[i] = s[j] => i = j
  <2> TAKE i, j \in DOMAIN s
  <2> HAVE s[i] = s[j]
  <2>1. CASE i \in 1..Len(q) /\ j \in 1..Len(q)
    BY <1>1, <1>2, <2>1 DEF InLine
  <2>2. CASE i = Len(q) + 1 \/ j = Len(q) + 1
    BY <1>1, <1>2, <1>3, <1>4, <2>2
  <2> QED  BY <1>3, <2>1, <2>2
<1>8. InLine(s)
  BY <1>5, <1>6, <1>7 DEF InLine
<1> QED  BY <1>8 DEF s

LEMMA LineHeaded ==
    ASSUME NEW q \in Seq(Queries), InLine(q), Listen \notin ToSet(q)
    PROVE  InLine(<<Listen>> \o q)
<1> DEFINE s == <<Listen>> \o q
<1>1. /\ Len(q) \in Nat /\ DOMAIN q = 1..Len(q) /\ DOMAIN s = 1..(Len(q) + 1) /\ s[1] = Listen
      /\ \A i \in DOMAIN s : i # 1 => i - 1 \in DOMAIN q /\ s[i] = q[i - 1]
  BY Behind, QueriesNamed
<1> HIDE DEF s
<1>2. \A i \in DOMAIN q : q[i] # Listen
  BY DEF ToSet
<1>3. \A i \in DOMAIN s : s[i].kind = "notify" <=> s[i].id # 0
  <2> TAKE i \in DOMAIN s
  <2>1. CASE i = 1
    BY <1>1, <2>1 DEF Listen
  <2>2. CASE i # 1
    BY <1>1, <2>2 DEF InLine
  <2> QED  BY <2>1, <2>2
<1>4. \A i, j \in DOMAIN s : i < j /\ s[i].id # 0 /\ s[j].id # 0 => s[i].id < s[j].id
  <2> TAKE i, j \in DOMAIN s
  <2> HAVE i < j /\ s[i].id # 0 /\ s[j].id # 0
  <2>1. i # 1
    BY <1>1 DEF Listen
  <2>2. j # 1 /\ i - 1 < j - 1
    BY <1>1, <2>1
  <2> QED  BY <1>1, <2>1, <2>2 DEF InLine
<1>5. \A i, j \in DOMAIN s : s[i] = s[j] => i = j
  <2> TAKE i, j \in DOMAIN s
  <2> HAVE s[i] = s[j]
  <2>1. CASE i = 1 \/ j = 1
    BY <1>1, <1>2, <2>1
  <2>2. CASE i # 1 /\ j # 1
    <3>1. i - 1 = j - 1
      BY <1>1, <2>2 DEF InLine
    <3> QED  BY <1>1, <3>1
  <2> QED  BY <2>1, <2>2
<1>6. InLine(s)
  BY <1>3, <1>4, <1>5 DEF InLine
<1> QED  BY <1>6 DEF s

LEMMA LineLeft ==
    ASSUME NEW q \in Seq(Queries), NEW e \in Queries, InLine(<<e>> \o q)
    PROVE  InLine(q) /\ e \notin ToSet(q)
<1> DEFINE s == <<e>> \o q
<1>1. /\ Len(q) \in Nat /\ DOMAIN q = 1..Len(q) /\ DOMAIN s = 1..(Len(q) + 1) /\ s[1] = e
      /\ \A i \in DOMAIN q : i + 1 \in DOMAIN s /\ s[i + 1] = q[i]
  BY Behind
<1> HIDE DEF s
<1>2. InLine(s)
  BY DEF s
<1>3. \A i \in DOMAIN q : q[i].kind = "notify" <=> q[i].id # 0
  BY <1>1, <1>2 DEF InLine
<1>4. \A i, j \in DOMAIN q : i < j /\ q[i].id # 0 /\ q[j].id # 0 => q[i].id < q[j].id
  <2> TAKE i, j \in DOMAIN q
  <2> HAVE i < j /\ q[i].id # 0 /\ q[j].id # 0
  <2>1. i + 1 < j + 1
    BY <1>1
  <2> QED  BY <1>1, <1>2, <2>1 DEF InLine
<1>5. \A i, j \in DOMAIN q : q[i] = q[j] => i = j
  <2> TAKE i, j \in DOMAIN q
  <2> HAVE q[i] = q[j]
  <2>1. i + 1 = j + 1
    BY <1>1, <1>2 DEF InLine
  <2> QED  BY <1>1, <2>1
<1>6. \A i \in DOMAIN q : q[i] # e
  <2> TAKE i \in DOMAIN q
  <2>1. q[i] = e => i + 1 = 1
    <3>1. 1 \in DOMAIN s
      BY <1>1
    <3> QED  BY <1>1, <1>2, <3>1 DEF InLine
  <2> QED  BY <1>1, <2>1
<1> QED  BY <1>3, <1>4, <1>5, <1>6 DEF InLine, ToSet

LEMMA Standing ==
    ASSUME Queued
    PROVE  /\ Unanswered \in Seq(Queries)
           /\ activeQuery = None => Unanswered = queryQueue
           /\ activeQuery # None => activeQuery \in Queries /\ Unanswered = <<activeQuery>> \o queryQueue
           /\ ToSet(queryQueue) \subseteq Queries
           /\ ToSet(Unanswered) = ToSet(queryQueue) \cup ({activeQuery} \ {None})
<1>1. ToSet(queryQueue) \subseteq Queries
  BY DEF Queued, ToSet
<1>2. CASE activeQuery = None
  BY <1>1, <1>2 DEF Queued, Unanswered
<1>3. CASE activeQuery # None
  BY <1>1, <1>3, Behind DEF Queued, Unanswered
<1> QED  BY <1>1, <1>2, <1>3

\* Who waits in line is later than what was executed, and its promise pends.
Later(q) == \A i \in DOMAIN executed : q.id # 0 => executed[i] < q.id

LEMMA WaitingLater ==
    ASSUME Queued, Line, Promised, Ordered
    PROVE  /\ \A q \in ToSet(queryQueue) : Later(q)
           /\ \A q \in ToSet(Unanswered) : q.id # 0 => q.id \in Notifies /\ outcome[q.id] = "pending"
           /\ \A q \in Queries : q.id # 0 /\ q.kind = "notify" => q = NotifyQuery(q.id)
           /\ \A n \in Notifies : outcome[n] = "unused" => Later(NotifyQuery(n))
<1>1. \A q \in ToSet(queryQueue) : Later(q)
  BY DEF Ordered, Later, ToSet
<1>2. \A q \in Queries : q.id # 0 /\ q.kind = "notify" => q = NotifyQuery(q.id) /\ q.id \in Notifies
  BY DEF Queries, NotifyQuery
<1>3. ASSUME NEW q \in ToSet(Unanswered), q.id # 0
      PROVE  q.id \in Notifies /\ outcome[q.id] = "pending"
  <2>1. PICK i \in DOMAIN Unanswered : q = Unanswered[i]
    BY DEF ToSet
  <2>2. q.kind = "notify"
    BY <1>3, <2>1 DEF Line, InLine
  <2>3. q \in Queries
    BY <2>1, Standing
  <2>4. q = NotifyQuery(q.id) /\ q.id \in Notifies
    BY <1>2, <1>3, <2>2, <2>3
  <2> QED  BY <2>4 DEF Promised
<1>4. ASSUME NEW n \in Notifies, outcome[n] = "unused"  PROVE Later(NotifyQuery(n))
  <2> SUFFICES ASSUME NEW i \in DOMAIN executed  PROVE executed[i] < n
    BY DEF Later, NotifyQuery
  <2>1. executed[i] \in Notifies /\ outcome[executed[i]] # "unused"
    BY DEF Queued, Ordered
  <2>2. ~(n < executed[i]) /\ n # executed[i]
    BY <1>4, <2>1 DEF Promised
  <2>3. n \in Int /\ executed[i] \in Int
    BY <2>1 DEF Notifies
  <2> QED  BY <2>2, <2>3
<1> QED  BY <1>1, <1>2, <1>3, <1>4

\* What a step makes of the line and of the promises.
Lined == /\ InLine(Unanswered)
         /\ closed => Unanswered = <<>>
         /\ Promised

LEMMA LineKept ==
    ASSUME Lined, Unanswered' = Unanswered, UNCHANGED <<outcome, closed>>
    PROVE  Lined'
  BY DEF Lined, Promised, InLine

LEMMA FirstLeaves ==
    ASSUME Queued, Lined, NEW result \in {"rejected", "resolved"},
           Unanswered' = queryQueue, outcome' = Settle({activeQuery}, result), UNCHANGED closed
    PROVE  Lined'
<1>1. CASE activeQuery = None
  <2>1. outcome' = outcome
    BY <1>1, QueriesNamed DEF Settle, Queued
  <2> QED  BY <1>1, <2>1, Standing, LineKept
<1>2. CASE activeQuery # None
  <2>1. InLine(queryQueue) /\ activeQuery \notin ToSet(queryQueue)
    <3>1. activeQuery \in Queries /\ queryQueue \in Seq(Queries) /\ InLine(<<activeQuery>> \o queryQueue)
      BY <1>2, Standing DEF Queued, Lined
    <3> QED  BY <3>1, LineLeft
  <2>2. closed' => Unanswered' = <<>>
    <3>1. closed => FALSE
      <4>1. <<activeQuery>> \o queryQueue # <<>>
        BY <1>2, Behind DEF Queued
      <4> QED  BY <1>2, <4>1, Standing DEF Lined
    <3> QED  BY <3>1
  <2>3. \A n \in Notifies : outcome'[n] = "pending" <=> NotifyQuery(n) \in ToSet(queryQueue)
    <3> TAKE n \in Notifies
    <3>1. outcome'[n] = IF NotifyQuery(n) = activeQuery THEN result ELSE outcome[n]
      BY DEF Settle
    <3>2. NotifyQuery(n) \in ToSet(Unanswered) <=> NotifyQuery(n) \in ToSet(queryQueue) \/ NotifyQuery(n) = activeQuery
      BY <1>2, Standing
    <3> QED  BY <2>1, <3>1, <3>2 DEF Lined, Promised
  <2>4. \A n \in Notifies : outcome'[n] # "unused" <=> outcome[n] # "unused"
    <3> TAKE n \in Notifies
    <3>1. outcome'[n] = IF NotifyQuery(n) = activeQuery THEN result ELSE outcome[n]
      BY DEF Settle
    <3>2. NotifyQuery(n) = activeQuery => outcome[n] = "pending"
      BY <1>2, Standing DEF Lined, Promised
    <3> QED  BY <3>1, <3>2
  <2>5. Promised'
    BY <2>3, <2>4 DEF Lined, Promised
  <2> QED  BY <2>1, <2>2, <2>5 DEF Lined
<1> QED  BY <1>1, <1>2

LEMMA AllLeave ==
    ASSUME Queued, Lined, Unanswered' = <<>>,
           outcome' = Settle(ToSet(queryQueue) \cup {activeQuery}, "rejected")
    PROVE  Lined'
<1>1. ToSet(<<>>) = {} /\ InLine(<<>>)
  BY DEF ToSet, InLine
<1>2. \A n \in Notifies : outcome'[n] = IF NotifyQuery(n) \in ToSet(Unanswered) THEN "rejected" ELSE outcome[n]
  BY Standing, QueriesNamed DEF Settle
<1>3. \A n \in Notifies : outcome'[n] # "pending" /\ (outcome'[n] # "unused" <=> outcome[n] # "unused")
  BY <1>2 DEF Lined, Promised
<1>4. Promised'
  BY <1>1, <1>3 DEF Lined, Promised
<1> QED  BY <1>1, <1>4 DEF Lined

LEMMA NotifyJoins ==
    ASSUME Queued, Lined, Line, Promised, Ordered, NEW n \in Notifies, ~closed, ~closed', outcome[n] = "unused",
           \A m \in Notifies : m < n => outcome[m] # "unused",
           Unanswered' = Append(Unanswered, NotifyQuery(n)), outcome' = [outcome EXCEPT ![n] = "pending"]
    PROVE  Lined'
<1>1. NotifyQuery(n) \notin ToSet(Unanswered)
  BY DEF Promised
<1>2. NotifyQuery(n).id = n /\ n # 0 /\ NotifyQuery(n).kind = "notify"
  BY DEF NotifyQuery, Notifies
<1>3. \A i \in DOMAIN Unanswered : Unanswered[i].id # 0 => Unanswered[i].id < n
  <2> TAKE i \in DOMAIN Unanswered
  <2> HAVE Unanswered[i].id # 0
  <2> DEFINE m == Unanswered[i].id
  <2>1. m \in Notifies /\ outcome[m] = "pending"
    BY WaitingLater DEF ToSet
  <2>2. m # n /\ ~(n < m)
    BY <2>1 DEF Promised
  <2>3. m \in Int /\ n \in Int
    BY <2>1 DEF Notifies
  <2> QED  BY <2>2, <2>3
<1>4. InLine(Unanswered')
  <2>1. Unanswered \in Seq(Queries)
    BY Standing
  <2> QED  BY <1>1, <1>2, <1>3, <2>1, LineJoined, QueriesNamed DEF Lined
<1>5. ToSet(Unanswered') = ToSet(Unanswered) \cup {NotifyQuery(n)}
  BY SetOfAppended, Standing, QueriesNamed
<1>6. \A m \in Notifies : outcome'[m] = IF m = n THEN "pending" ELSE outcome[m]
  BY DEF Queued
<1>7. \A m \in Notifies : NotifyQuery(m) = NotifyQuery(n) <=> m = n
  BY DEF NotifyQuery
<1>8. \A m \in Notifies : outcome'[m] = "pending" <=> NotifyQuery(m) \in ToSet(Unanswered')
  BY <1>5, <1>6, <1>7 DEF Promised
<1>9. ASSUME NEW k \in Notifies, NEW m \in Notifies, k < m, outcome'[m] # "unused"
      PROVE  outcome'[k] # "unused"
  BY <1>6, <1>9 DEF Promised
<1> QED  BY <1>4, <1>8, <1>9 DEF Lined, Promised

LEMMA HealthJoins ==
    ASSUME Queued, Lined, Health \notin ToSet(Unanswered), ~closed',
           Unanswered' = Append(Unanswered, Health), UNCHANGED outcome
    PROVE  Lined'
<1>1. Unanswered \in Seq(Queries)
  BY Standing
<1>2. InLine(Unanswered')
  BY <1>1, LineJoined, QueriesNamed DEF Lined, Health
<1>3. ToSet(Unanswered') = ToSet(Unanswered) \cup {Health}
  BY <1>1, SetOfAppended, QueriesNamed
<1>4. Promised'
  BY <1>3, QueriesNamed DEF Lined, Promised
<1> QED  BY <1>2, <1>4 DEF Lined

LEMMA ListenJoins ==
    ASSUME Queued, Lined, Listen \notin ToSet(Unanswered), ~closed',
           Unanswered' = <<Listen>> \o Unanswered, UNCHANGED outcome
    PROVE  Lined'
<1>1. Unanswered \in Seq(Queries)
  BY Standing
<1>2. InLine(Unanswered')
  BY <1>1, LineHeaded DEF Lined
<1>3. ToSet(Unanswered') = ToSet(Unanswered) \cup {Listen}
  BY <1>1, Behind, QueriesNamed
<1>4. Promised'
  BY <1>3, QueriesNamed DEF Lined, Promised
<1> QED  BY <1>2, <1>4 DEF Lined

LEMMA FlushLine ==
    ASSUME NEW q \in Seq(Queries), NEW ready, Flush(q, ready), asked \in Queries \cup {None}
    PROVE  /\ queryQueue' \in Seq(Queries) /\ activeQuery' \in Queries \cup {None}
           /\ asked' \in Queries \cup {None}
           /\ Unanswered' = q
           /\ ToSet(queryQueue') \subseteq ToSet(q) /\ activeQuery' \in ToSet(q) \cup {None}
           /\ asked' = asked \/ asked' \in ToSet(q)
<1>1. CASE ~closed /\ HasSocket /\ ready /\ q # <<>>
  <2>1. PICK h \in Queries, t \in Seq(Queries) : h = Head(q) /\ t = Tail(q)
    <3>1. q # <<>>
      BY <1>1
    <3>2. Tail(q) \in Seq(Queries)
      BY <3>1
    <3>3. Head(q) \in Queries
      BY <3>1
    <3> QED  BY <3>2, <3>3
  <2>2. activeQuery' = h /\ queryQueue' = t /\ (asked' = asked \/ asked' = h)
    BY <1>1, <2>1 DEF Flush
  <2>3. <<h>> \o t = q
    BY <1>1, <2>1, Rejoined
  <2>4. Unanswered' = q
    BY <2>2, <2>3, QueriesNamed DEF Unanswered
  <2>5. ToSet(<<h>> \o t) = ToSet(t) \cup {h}
    BY Behind
  <2>6. ToSet(q) = ToSet(t) \cup {h}
    BY <2>3, <2>5
  <2> QED  BY <2>2, <2>4, <2>6
<1>2. CASE ~(~closed /\ HasSocket /\ ready /\ q # <<>>)
  BY <1>2 DEF Flush, Unanswered
<1> QED  BY <1>1, <1>2

LEMMA OrderKept ==
    ASSUME Queued, Ordered, Queued', UNCHANGED executed,
           \A n \in Notifies : outcome[n] # "unused" => outcome'[n] # "unused",
           \A n \in Notifies : outcome'[n] = "resolved" => n \in ToSet(executed),
           \A q \in ToSet(queryQueue') : Later(q),
           activeQuery' = activeQuery \/ Later(activeQuery'),
           asked' = asked \/ (Later(asked') /\ (asked'.id # 0 => outcome'[asked'.id] # "unused"))
    PROVE  Ordered'
<1>1. \A i, j \in DOMAIN executed' : i < j => executed'[i] < executed'[j]
  BY DEF Ordered
<1>2. ASSUME NEW i \in DOMAIN executed'
      PROVE  /\ outcome'[executed'[i]] # "unused"
             /\ \A j \in DOMAIN queryQueue' : queryQueue'[j].id # 0 => executed'[i] < queryQueue'[j].id
             /\ activeQuery'.id # 0 => executed'[i] <= activeQuery'.id
             /\ asked'.id # 0 => executed'[i] < asked'.id
  <2>1. executed'[i] = executed[i] /\ i \in DOMAIN executed /\ executed[i] \in Notifies
    BY DEF Queued
  <2>2. outcome'[executed'[i]] # "unused"
    BY <2>1 DEF Ordered
  <2>3. \A j \in DOMAIN queryQueue' : queryQueue'[j].id # 0 => executed'[i] < queryQueue'[j].id
    BY <2>1 DEF Later, ToSet
  <2>4. activeQuery'.id # 0 => executed'[i] <= activeQuery'.id
    <3>1. CASE activeQuery' = activeQuery
      BY <2>1, <3>1 DEF Ordered
    <3>2. CASE Later(activeQuery')
      <4>1. activeQuery'.id \in Int /\ executed[i] \in Int
        BY <2>1 DEF Queued, Queries, None, Notifies
      <4> QED  BY <2>1, <3>2, <4>1 DEF Later
    <3> QED  BY <3>1, <3>2
  <2>5. asked'.id # 0 => executed'[i] < asked'.id
    BY <2>1 DEF Ordered, Later
  <2> QED  BY <2>2, <2>3, <2>4, <2>5
<1>3. asked'.id # 0 => outcome'[asked'.id] # "unused"
  <2>1. CASE asked' = asked
    <3>1. asked.id \in Notifies \cup {0}
      BY DEF Queued, Queries, None
    <3> QED  BY <2>1, <3>1 DEF Ordered
  <2> QED  BY <2>1
<1> QED  BY <1>1, <1>2, <1>3 DEF Ordered
-----------------------------------------------------------------------------
(* Each step of the listener keeps the line and its order.                 *)

LineInv == Queued /\ Line /\ Promised /\ Ordered

\* Steps that concern no query.
LEMMA LineUntouched ==
    ASSUME LineInv, UNCHANGED <<queryQueue, activeQuery, outcome, closed, executed>>,
           asked' = asked \/ asked' = None
    PROVE  LineInv'
<1> USE DEF LineInv
<1>1. Unanswered' = Unanswered
  BY DEF Unanswered
<1>2. Queued'
  BY DEF Queued
<1>3. Lined'
  BY <1>1, LineKept DEF Lined, Line
<1>4. Line'
  BY <1>3 DEF Line, Lined, None
<1>5. Ordered'
  <2>1. \A q \in ToSet(queryQueue') : Later(q)
    BY WaitingLater
  <2>2. \A n \in Notifies : outcome'[n] = "resolved" => n \in ToSet(executed)
    BY DEF Ordered
  <2>3. asked' = asked \/ (Later(asked') /\ (asked'.id # 0 => outcome'[asked'.id] # "unused"))
    BY DEF Later, None
  <2> QED  BY <1>2, <2>1, <2>2, <2>3, OrderKept
<1> QED  BY <1>2, <1>3, <1>4, <1>5 DEF Lined

\* The active query is rejected, and a reset connection has asked nothing.
LEMMA LineRejectActive ==
    ASSUME LineInv, RejectActive, UNCHANGED <<closed, executed>>, asked' = asked \/ asked' = None
    PROVE  LineInv'
<1> USE DEF LineInv, RejectActive
<1>1. Unanswered' = queryQueue
  BY DEF Unanswered
<1>2. \A n \in Notifies : outcome'[n] \in {outcome[n], "rejected"}
  BY DEF Settle
<1>3. Queued'
  <2>1. outcome' \in [Notifies -> Outcomes]
    BY DEF Settle, Queued, Outcomes
  <2> QED  BY <2>1 DEF Queued
<1>4. Lined'
  BY <1>1, FirstLeaves DEF Lined, Line
<1>5. Line'
  BY <1>4 DEF Line, Lined, None
<1>6. Ordered'
  <2>1. \A q \in ToSet(queryQueue') : Later(q)
    BY WaitingLater
  <2>2. \A n \in Notifies : outcome'[n] = "resolved" => n \in ToSet(executed)
    BY <1>2 DEF Ordered
  <2>3. \A n \in Notifies : outcome[n] # "unused" => outcome'[n] # "unused"
    BY <1>2
  <2>4. Later(activeQuery')
    BY DEF Later, None
  <2>5. asked' = asked \/ (Later(asked') /\ (asked'.id # 0 => outcome'[asked'.id] # "unused"))
    BY DEF Later, None
  <2> QED  BY <1>3, <2>1, <2>2, <2>3, <2>4, <2>5, OrderKept
<1> QED  BY <1>3, <1>4, <1>5, <1>6 DEF Lined

\* Every query is rejected.
LEMMA LineRejectAll ==
    ASSUME LineInv, RejectAll, UNCHANGED executed, asked' = asked \/ asked' = None
    PROVE  LineInv'
<1> USE DEF LineInv, RejectAll
<1>1. Unanswered' = <<>>
  BY DEF Unanswered
<1>2. \A n \in Notifies : outcome'[n] \in {outcome[n], "rejected"}
  BY DEF Settle
<1>3. Queued'
  <2>1. outcome' \in [Notifies -> Outcomes]
    BY DEF Settle, Queued, Outcomes
  <2>2. queryQueue' \in Seq(Queries)
    OBVIOUS
  <2> QED  BY <2>1, <2>2 DEF Queued
<1>4. Lined'
  BY <1>1, AllLeave DEF Lined, Line
<1>5. Line'
  BY <1>4 DEF Line, Lined, None
<1>6. Ordered'
  <2>1. \A q \in ToSet(queryQueue') : Later(q)
    BY DEF ToSet
  <2>2. \A n \in Notifies : outcome'[n] = "resolved" => n \in ToSet(executed)
    BY <1>2 DEF Ordered
  <2>3. \A n \in Notifies : outcome[n] # "unused" => outcome'[n] # "unused"
    BY <1>2
  <2>4. Later(activeQuery')
    BY DEF Later, None
  <2>5. asked' = asked \/ (Later(asked') /\ (asked'.id # 0 => outcome'[asked'.id] # "unused"))
    BY DEF Later, None
  <2> QED  BY <1>3, <2>1, <2>2, <2>3, <2>4, <2>5, OrderKept
<1> QED  BY <1>3, <1>4, <1>5, <1>6 DEF Lined

\* ScheduleReconnect does the one or the other.
LEMMA LineScheduleReconnect ==
    ASSUME LineInv, ScheduleReconnect, UNCHANGED executed, asked' = asked \/ asked' = None
    PROVE  LineInv'
  BY LineRejectActive, LineRejectAll DEF ScheduleReconnect

\* A flush of the queue, with or without one more query, or of what the
\* answered query leaves.
LEMMA LineFlushed ==
    ASSUME LineInv, NEW q \in Seq(Queries), NEW ready, Flush(q, ready), UNCHANGED executed,
           Lined', outcome' \in [Notifies -> Outcomes],
           \A n \in Notifies : outcome[n] # "unused" => outcome'[n] # "unused",
           \A n \in Notifies : outcome'[n] = "resolved" => n \in ToSet(executed),
           \A e \in ToSet(q) : Later(e) /\ (e.id # 0 => outcome'[e.id] # "unused"),
           \A e \in ToSet(q) : e.id # 0 <=> e.kind = "notify",
           Listen \notin ToSet(queryQueue')
    PROVE  LineInv'
<1> USE DEF LineInv
<1>1. /\ queryQueue' \in Seq(Queries) /\ activeQuery' \in Queries \cup {None}
      /\ asked' \in Queries \cup {None}
      /\ Unanswered' = q
      /\ ToSet(queryQueue') \subseteq ToSet(q) /\ activeQuery' \in ToSet(q) \cup {None}
      /\ asked' = asked \/ asked' \in ToSet(q)
  BY FlushLine DEF Queued
<1>2. Queued'
  BY <1>1 DEF Queued
<1>3. Line'
  <2>1. \A i \in DOMAIN queryQueue' : queryQueue'[i] # Listen
    BY DEF ToSet
  <2>2. asked'.id # 0 <=> asked'.kind = "notify"
    BY <1>1 DEF Line
  <2> QED  BY <2>1, <2>2 DEF Line, Lined
<1>4. Ordered'
  <2>1. \A e \in ToSet(queryQueue') : Later(e)
    BY <1>1
  <2>2. activeQuery' = activeQuery \/ Later(activeQuery')
    BY <1>1 DEF Later, None
  <2>3. asked' = asked \/ (Later(asked') /\ (asked'.id # 0 => outcome'[asked'.id] # "unused"))
    BY <1>1
  <2> QED  BY <1>2, <2>1, <2>2, <2>3, OrderKept
<1> QED  BY <1>2, <1>3, <1>4 DEF Lined

LEMMA AppendBehind ==
    ASSUME NEW S, NEW q \in Seq(S), NEW e \in S, NEW x \in S
    PROVE  <<e>> \o Append(q, x) = Append(<<e>> \o q, x)
  OBVIOUS

\* One more query, sent if there is nothing to wait for.
LEMMA LineEnqueued ==
    ASSUME LineInv, NEW x \in Queries, Enqueue(x), x # Listen, x.id # 0 <=> x.kind = "notify",
           Later(x), x.id # 0 => outcome'[x.id] # "unused",
           Unanswered' = Append(Unanswered, x) => Lined',
           outcome' \in [Notifies -> Outcomes],
           \A n \in Notifies : outcome[n] # "unused" => outcome'[n] # "unused",
           \A n \in Notifies : outcome'[n] = "resolved" => n \in ToSet(executed)
    PROVE  LineInv'
<1> USE DEF LineInv
<1>1. UNCHANGED executed /\ queryQueue \in Seq(Queries)
  BY DEF Enqueue, Queued
<1>2. Listen \notin ToSet(queryQueue)
  BY DEF Line, ToSet
<1>3. Append(queryQueue, x) \in Seq(Queries) /\ ToSet(Append(queryQueue, x)) = ToSet(queryQueue) \cup {x}
  BY <1>1, SetOfAppended
<1>4. \A e \in ToSet(queryQueue) : Later(e) /\ (e.id # 0 => outcome'[e.id] # "unused")
  <2> TAKE e \in ToSet(queryQueue)
  <2>1. e \in ToSet(Unanswered)
    BY Standing
  <2> QED  BY <2>1, WaitingLater
<1>5. \A e \in ToSet(queryQueue) : e.id # 0 <=> e.kind = "notify"
  <2> TAKE e \in ToSet(queryQueue)
  <2>1. e \in ToSet(Unanswered)
    BY Standing
  <2> QED  BY <2>1 DEF Line, InLine, ToSet
<1>6. CASE activeQuery = None
  <2>1. Flush(Append(queryQueue, x), readyForQuery)
    BY <1>6 DEF Enqueue
  <2>2. Unanswered' = Append(queryQueue, x) /\ ToSet(queryQueue') \subseteq ToSet(Append(queryQueue, x))
    BY <1>3, <2>1, FlushLine DEF Queued
  <2>3. Lined'
    BY <1>6, <2>2, Standing
  <2> QED  BY <1>1, <1>2, <1>3, <1>4, <1>5, <2>1, <2>2, <2>3, LineFlushed
<1>7. CASE activeQuery # None
  <2>1. queryQueue' = Append(queryQueue, x) /\ UNCHANGED <<activeQuery, asked>>
    BY <1>7 DEF Enqueue
  <2>2. Unanswered' = Append(Unanswered, x)
    <3>1. Unanswered' = <<activeQuery>> \o Append(queryQueue, x) /\ Unanswered = <<activeQuery>> \o queryQueue
      BY <1>7, <2>1 DEF Unanswered
    <3>2. activeQuery \in Queries
      BY <1>7 DEF Queued
    <3> QED  BY <1>1, <3>1, <3>2, AppendBehind
  <2>3. Queued'
    BY <1>1, <1>3, <2>1 DEF Queued
  <2>4. \A i \in DOMAIN queryQueue' : queryQueue'[i] # Listen
    BY <1>2, <1>3, <2>1 DEF ToSet
  <2>5. Line'
    BY <2>1, <2>2, <2>4 DEF Line, Lined
  <2>6. \A e \in ToSet(queryQueue') : Later(e)
    BY <1>3, <1>4, <2>1
  <2>7. Ordered'
    BY <1>1, <2>1, <2>3, <2>6, OrderKept
  <2> QED  BY <2>2, <2>3, <2>5, <2>7 DEF Lined
<1> QED  BY <1>6, <1>7

LEMMA LineReconnectTimer == ASSUME BunInv, ReconnectTimer  PROVE LineInv'
<1>1. activeQuery = None
  BY DEF ReconnectTimer, BunInv, Session, Single, Fresh
<1>2. UNCHANGED <<queryQueue, activeQuery, outcome, closed, executed, asked>>
  BY <1>1 DEF ReconnectTimer, peer
<1> QED  BY <1>2, LineUntouched DEF BunInv, LineInv

LEMMA LineOpen == ASSUME BunInv, Open  PROVE LineInv'
  BY LineUntouched DEF BunInv, LineInv, Open

LEMMA LineConnectFails == ASSUME BunInv, ConnectFails  PROVE LineInv'
<1>1. UNCHANGED <<executed, asked>>
  BY DEF ConnectFails, peer
<1>2. CASE closed
  <2>1. UNCHANGED <<queryQueue, activeQuery, outcome, closed>>
    BY <1>2 DEF ConnectFails, Retry, client
  <2> QED  BY <1>1, <2>1, LineUntouched DEF BunInv, LineInv
<1>3. CASE ~closed
  BY <1>1, <1>3, LineScheduleReconnect DEF BunInv, LineInv, ConnectFails, Retry
<1> QED  BY <1>2, <1>3

LEMMA LineSocketClose == ASSUME BunInv, SocketClose  PROVE LineInv'
<1>1. UNCHANGED executed /\ asked' = None
  BY DEF SocketClose
<1>2. RejectAll \/ ScheduleReconnect
  BY DEF SocketClose
<1> QED  BY <1>1, <1>2, LineRejectAll, LineScheduleReconnect DEF BunInv, LineInv

LEMMA LineNegotiate == ASSUME BunInv, Negotiate  PROVE LineInv'
  BY LineUntouched DEF BunInv, LineInv, Negotiate

LEMMA LineAnswerReady == ASSUME BunInv, AnswerReady  PROVE LineInv'
<1> DEFINE result == IF activeError THEN "rejected" ELSE "resolved"
<1>1. LineInv /\ Session
  BY DEF BunInv, LineInv
<1>2. /\ Read("ready") /\ activeQuery # None /\ Flush(queryQueue, TRUE)
      /\ outcome' = Settle({activeQuery}, result) /\ UNCHANGED <<closed, executed>>
  BY DEF AnswerReady
<1>3. result \in {"rejected", "resolved"} /\ (~activeError <=> result = "resolved")
  OBVIOUS
<1> HIDE DEF result
<1>4. \A n \in Notifies : outcome'[n] = IF NotifyQuery(n) = activeQuery THEN result ELSE outcome[n]
  BY <1>2 DEF Settle
<1>5. Unanswered' = queryQueue
  BY <1>1, <1>2, FlushLine DEF LineInv, Queued
<1>6. Lined'
  BY <1>1, <1>2, <1>3, <1>5, FirstLeaves DEF LineInv, Line, Lined
<1>7. outcome' \in [Notifies -> Outcomes]
  BY <1>1, <1>2, <1>3 DEF Settle, Outcomes, LineInv, Queued
<1>8. \A n \in Notifies : outcome[n] # "unused" => outcome'[n] # "unused"
  BY <1>3, <1>4
<1>9. ASSUME NEW n \in Notifies, outcome'[n] = "resolved"  PROVE n \in ToSet(executed)
  <2>1. CASE NotifyQuery(n) = activeQuery
    <3>1. ~activeError
      BY <1>3, <1>4, <1>9, <2>1
    <3>2. wire # <<>> /\ wire[1] = "ready"
      BY <1>1, <1>2, Received DEF Session
    <3>3. Done(activeQuery)
      BY <1>1, <1>2, <3>1, <3>2 DEF Session, Answers
    <3> QED  BY <2>1, <3>3 DEF Done, NotifyQuery
  <2>2. CASE NotifyQuery(n) # activeQuery
    BY <1>1, <1>4, <1>9, <2>2 DEF LineInv, Ordered
  <2> QED  BY <2>1, <2>2
<1>10. \A e \in ToSet(queryQueue) : Later(e) /\ (e.id # 0 => outcome'[e.id] # "unused")
  <2> TAKE e \in ToSet(queryQueue)
  <2>1. e \in ToSet(Unanswered)
    BY <1>1, Standing DEF LineInv
  <2> QED  BY <1>1, <1>8, <2>1, WaitingLater DEF LineInv
<1>11. \A e \in ToSet(queryQueue) : e.id # 0 <=> e.kind = "notify"
  <2> TAKE e \in ToSet(queryQueue)
  <2>1. e \in ToSet(Unanswered)
    BY <1>1, Standing DEF LineInv
  <2> QED  BY <1>1, <2>1 DEF LineInv, Line, InLine, ToSet
<1>12. Listen \notin ToSet(queryQueue') /\ queryQueue \in Seq(Queries)
  <2>1. Listen \notin ToSet(queryQueue) /\ queryQueue \in Seq(Queries)
    BY <1>1 DEF LineInv, Line, Queued, ToSet
  <2>2. ToSet(queryQueue') \subseteq ToSet(queryQueue)
    BY <1>1, <1>2, FlushLine DEF LineInv, Queued
  <2> QED  BY <2>1, <2>2
<1> QED  BY <1>1, <1>2, <1>6, <1>7, <1>8, <1>9, <1>10, <1>11, <1>12, LineFlushed

\* A flush when no query is active, with nothing new.
LEMMA LineFlushedAgain ==
    ASSUME LineInv, activeQuery = None, Flush(queryQueue, TRUE), UNCHANGED <<executed, outcome, closed>>
    PROVE  LineInv'
<1> USE DEF LineInv
<1>1. queryQueue \in Seq(Queries) /\ Unanswered = queryQueue
  BY Standing DEF Queued
<1>2. Unanswered' = Unanswered /\ ToSet(queryQueue') \subseteq ToSet(queryQueue)
  BY <1>1, FlushLine DEF Queued
<1>3. Lined'
  BY <1>2, LineKept DEF Line, Lined
<1>4. \A e \in ToSet(queryQueue) : Later(e) /\ (e.id # 0 => outcome'[e.id] # "unused")
  BY <1>1, WaitingLater
<1>5. \A e \in ToSet(queryQueue) : e.id # 0 <=> e.kind = "notify"
  BY <1>1 DEF Line, InLine, ToSet
<1>6. Listen \notin ToSet(queryQueue')
  BY <1>2 DEF Line, ToSet
<1> QED  BY <1>1, <1>3, <1>4, <1>5, <1>6, LineFlushed DEF Queued, Ordered

LEMMA LineStartupReady == ASSUME BunInv, StartupReady  PROVE LineInv'
<1>1. LineInv /\ Session
  BY DEF BunInv, LineInv
<1>2. /\ Read("ready") /\ activeQuery = None /\ UNCHANGED <<closed, executed, outcome>>
      /\ ~HasChannels => UNCHANGED <<queryQueue, activeQuery, asked>>
      /\ HasChannels => Flush(IF closed THEN queryQueue ELSE <<Listen>> \o queryQueue, TRUE)
  BY DEF StartupReady
<1>3. CASE ~HasChannels
  BY <1>1, <1>2, <1>3, LineUntouched
<1>4. CASE HasChannels /\ closed
  BY <1>1, <1>2, <1>4, LineFlushedAgain
<1>5. CASE HasChannels /\ ~closed
  <2> DEFINE q == <<Listen>> \o queryQueue
  <2>1. /\ queryQueue \in Seq(Queries) /\ Unanswered = queryQueue
        /\ Listen \notin ToSet(queryQueue)
    BY <1>1, <1>2, Standing DEF LineInv, Queued, Line, ToSet
  <2>2. q \in Seq(Queries) /\ ToSet(q) = ToSet(queryQueue) \cup {Listen} /\ q # <<>>
    BY <2>1, QueriesNamed, Behind
  <2>3. Tail(q) = queryQueue
    BY <2>1, QueriesNamed
  <2> HIDE DEF q
  <2>4. Flush(q, TRUE)
    BY <1>2, <1>5 DEF q
  <2>5. Unanswered' = q
    BY <1>1, <2>2, <2>4, FlushLine DEF LineInv, Queued
  <2>6. Lined'
    BY <1>1, <1>2, <1>5, <2>1, <2>5, ListenJoins DEF LineInv, Line, Lined, q
  <2>7. queryQueue' = queryQueue
    <3>1. HasSocket
      BY <1>2 DEF Read, HasSocket
    <3> QED  BY <1>5, <2>2, <2>3, <2>4, <3>1 DEF Flush
  <2>8. \A e \in ToSet(q) : Later(e) /\ (e.id # 0 => outcome'[e.id] # "unused")
    <3>1. \A e \in ToSet(queryQueue) : Later(e) /\ (e.id # 0 => outcome'[e.id] # "unused")
      BY <1>1, <1>2, <2>1, WaitingLater DEF LineInv
    <3> QED  BY <2>2, <3>1 DEF Later, Listen
  <2>9. \A e \in ToSet(q) : e.id # 0 <=> e.kind = "notify"
    <3>1. \A e \in ToSet(queryQueue) : e.id # 0 <=> e.kind = "notify"
      BY <1>1, <2>1 DEF LineInv, Line, InLine, ToSet
    <3> QED  BY <2>2, <3>1 DEF Listen
  <2>10. Listen \notin ToSet(queryQueue')
    BY <2>1, <2>7
  <2> QED  BY <1>1, <1>2, <2>2, <2>4, <2>6, <2>8, <2>9, <2>10, LineFlushed DEF LineInv, Queued, Ordered
<1> QED  BY <1>3, <1>4, <1>5

LEMMA LineLateReady == ASSUME BunInv, LateReady  PROVE LineInv'
  BY LineFlushedAgain DEF BunInv, LineInv, LateReady

LEMMA LinePostgresError == ASSUME BunInv, PostgresError  PROVE LineInv'
  BY LineUntouched DEF BunInv, LineInv, PostgresError, peer

LEMMA LineNotify == ASSUME BunInv, NEW n \in Notifies, Notify(n)  PROVE LineInv'
<1>1. LineInv
  BY DEF BunInv, LineInv
<1>2. /\ outcome[n] = "unused" /\ \A m \in Notifies : m < n => outcome[m] # "unused"
      /\ UNCHANGED closed
      /\ outcome' = [outcome EXCEPT ![n] = IF closed THEN "rejected" ELSE "pending"]
      /\ closed => UNCHANGED <<queryQueue, activeQuery, asked, executed>>
      /\ ~closed => Enqueue(NotifyQuery(n))
  BY DEF Notify, peer
<1>3. outcome' \in [Notifies -> Outcomes]
  BY <1>1, <1>2 DEF LineInv, Queued, Outcomes
<1>4. \A m \in Notifies : outcome'[m] = IF m = n THEN IF closed THEN "rejected" ELSE "pending" ELSE outcome[m]
  BY <1>1, <1>2 DEF LineInv, Queued
<1>5. \A m \in Notifies : outcome[m] # "unused" => outcome'[m] # "unused"
  BY <1>4
<1>6. \A m \in Notifies : outcome'[m] = "resolved" => m \in ToSet(executed)
  BY <1>1, <1>4 DEF LineInv, Ordered
<1>7. CASE closed
  <2>1. Unanswered' = Unanswered /\ Unanswered = <<>>
    BY <1>1, <1>2, <1>7 DEF Unanswered, LineInv, Line
  <2>2. Promised'
    <3>1. \A m \in Notifies : NotifyQuery(m) \notin ToSet(Unanswered')
      BY <2>1 DEF ToSet
    <3>2. \A m \in Notifies : outcome'[m] # "pending"
      BY <1>1, <1>4, <1>7, <2>1, <3>1 DEF LineInv, Promised
    <3>3. \A k, m \in Notifies : k < m /\ outcome'[m] # "unused" => outcome'[k] # "unused"
      BY <1>1, <1>2, <1>4 DEF LineInv, Promised
    <3> QED  BY <3>1, <3>2, <3>3 DEF Promised
  <2>3. Queued'
    BY <1>1, <1>2, <1>3, <1>7 DEF LineInv, Queued
  <2>4. Line'
    BY <1>1, <1>2, <1>7, <2>1 DEF LineInv, Line, InLine
  <2>5. \A e \in ToSet(queryQueue') : Later(e)
    BY <1>1, <1>2, <1>7, WaitingLater DEF LineInv
  <2>6. Ordered'
    BY <1>1, <1>2, <1>5, <1>6, <1>7, <2>3, <2>5, OrderKept DEF LineInv
  <2> QED  BY <2>2, <2>3, <2>4, <2>6 DEF LineInv
<1>8. CASE ~closed
  <2>1. /\ NotifyQuery(n) \in Queries /\ NotifyQuery(n) # Listen
        /\ NotifyQuery(n).id # 0 /\ NotifyQuery(n).kind = "notify" /\ NotifyQuery(n).id = n
    BY QueriesNamed DEF NotifyQuery, Notifies
  <2>2. Later(NotifyQuery(n))
    BY <1>1, <1>2, WaitingLater DEF LineInv
  <2>3. Unanswered' = Append(Unanswered, NotifyQuery(n)) => Lined'
    BY <1>1, <1>2, <1>8, NotifyJoins DEF LineInv, Line, Lined
  <2>4. outcome'[n] # "unused"
    BY <1>4
  <2> QED  BY <1>1, <1>2, <1>3, <1>5, <1>6, <1>8, <2>1, <2>2, <2>3, <2>4, LineEnqueued
<1> QED  BY <1>7, <1>8

LEMMA LineHealthCheck == ASSUME BunInv, HealthCheck  PROVE LineInv'
<1>1. LineInv
  BY DEF BunInv, LineInv
<1>2. /\ ~closed /\ activeQuery = None /\ Health \notin ToSet(queryQueue)
      /\ Enqueue(Health) /\ UNCHANGED <<closed, outcome>>
  BY DEF HealthCheck
<1>3. Health \in Queries /\ Health # Listen /\ Health.id = 0 /\ Health.kind # "notify" /\ Later(Health)
  BY QueriesNamed DEF Health, Later
<1>4. Health \notin ToSet(Unanswered)
  BY <1>1, <1>2, Standing DEF LineInv
<1>5. Unanswered' = Append(Unanswered, Health) => Lined'
  BY <1>1, <1>2, <1>4, HealthJoins DEF LineInv, Line, Lined
<1> QED  BY <1>1, <1>2, <1>3, <1>5, LineEnqueued DEF LineInv, Queued, Ordered

LEMMA LineClose == ASSUME BunInv, Close  PROVE LineInv'
  BY LineRejectAll DEF BunInv, LineInv, Close, peer

LEMMA LineSslResponse == ASSUME BunInv, SslResponse  PROVE LineInv'
  BY LineUntouched DEF BunInv, LineInv, SslResponse, client

LEMMA LineAdmit == ASSUME BunInv, Admit  PROVE LineInv'
  BY LineUntouched DEF BunInv, LineInv, Admit, client

LEMMA LineRefuse == ASSUME BunInv, Refuse  PROVE LineInv'
  BY LineUntouched DEF BunInv, LineInv, Refuse, client

LEMMA LineExecute == ASSUME BunInv, Execute  PROVE LineInv'
<1>1. LineInv /\ Session
  BY DEF BunInv, LineInv
<1>2. /\ server = "busy" /\ asked' = None
      /\ UNCHANGED <<queryQueue, activeQuery, outcome, closed>>
      /\ executed' = executed \/ (asked.kind = "notify" /\ executed' = Append(executed, asked.id))
  BY DEF Execute, client
<1>3. CASE executed' = executed
  BY <1>1, <1>2, <1>3, LineUntouched
<1>4. CASE asked.kind = "notify" /\ executed' = Append(executed, asked.id)
  <2> DEFINE n == asked.id
  <2>1. n \in Notifies /\ n # 0 /\ executed \in Seq(Notifies)
    BY <1>1, <1>4 DEF LineInv, Line, Queued, Queries, None
  <2>2. \A i \in DOMAIN executed : executed[i] < n
    BY <1>1, <2>1 DEF LineInv, Ordered
  <2>3. asked = activeQuery \/ (closed /\ activeQuery = None)
    BY <1>1, <1>2 DEF Session, Protocol
  <2>4. \A j \in DOMAIN queryQueue : queryQueue[j].id # 0 => n < queryQueue[j].id
    <3>1. CASE closed /\ activeQuery = None
      <4>1. queryQueue = <<>>
        BY <1>1, <3>1, Standing DEF LineInv, Line
      <4> QED  BY <4>1
    <3>2. CASE asked = activeQuery
      <4>1. activeQuery # None /\ activeQuery \in Queries /\ queryQueue \in Seq(Queries)
        BY <1>1, <1>4, <3>2 DEF LineInv, Queued, None
      <4>2. Unanswered = <<activeQuery>> \o queryQueue /\ InLine(Unanswered)
        BY <1>1, <4>1, Standing DEF LineInv, Line
      <4>3. /\ Len(queryQueue) \in Nat /\ DOMAIN queryQueue = 1..Len(queryQueue)
            /\ DOMAIN Unanswered = 1..(Len(queryQueue) + 1) /\ Unanswered[1] = activeQuery
            /\ \A j \in 1..Len(queryQueue) : j + 1 \in 1..(Len(queryQueue) + 1) /\ Unanswered[j + 1] = queryQueue[j]
        BY <4>1, <4>2, Behind
      <4> TAKE j \in DOMAIN queryQueue
      <4>4. 1 \in DOMAIN Unanswered /\ j + 1 \in DOMAIN Unanswered /\ 1 < j + 1
        BY <4>3
      <4> QED  BY <2>1, <3>2, <4>2, <4>3, <4>4 DEF InLine
    <3> QED  BY <2>3, <3>1, <3>2
  <2>5. activeQuery.id # 0 => activeQuery.id = n
    BY <2>3 DEF None
  <2> HIDE DEF n
  <2>6. executed' = Append(executed, n)
    BY <1>4 DEF n
  <2>7. /\ Len(executed) \in Nat /\ DOMAIN executed = 1..Len(executed)
        /\ DOMAIN executed' = 1..(Len(executed) + 1) /\ executed' \in Seq(Notifies)
        /\ \A i \in 1..Len(executed) : executed'[i] = executed[i]
        /\ executed'[Len(executed) + 1] = n
    BY <2>1, <2>6
  <2>8. ToSet(executed') = ToSet(executed) \cup {n}
    BY <2>1, <2>6, SetOfAppended
  <2>9. \A i \in DOMAIN executed' : i = Len(executed) + 1 \/ (i \in DOMAIN executed /\ executed'[i] = executed[i])
    BY <2>7
  <2>10. Queued'
    BY <1>1, <1>2, <2>7 DEF LineInv, Queued
  <2>11. Unanswered' = Unanswered
    BY <1>2 DEF Unanswered
  <2>12. Lined'
    BY <1>1, <1>2, <2>11, LineKept DEF LineInv, Line, Lined
  <2>13. Line'
    BY <1>1, <1>2, <2>12 DEF LineInv, Line, Lined, None
  <2>14. \A i, j \in DOMAIN executed' : i < j => executed'[i] < executed'[j]
    <3> TAKE i, j \in DOMAIN executed'
    <3> HAVE i < j
    <3>1. i \in DOMAIN executed /\ executed'[i] = executed[i]
      BY <2>7
    <3>2. CASE j = Len(executed) + 1
      BY <2>2, <2>7, <3>1, <3>2
    <3>3. CASE j \in DOMAIN executed /\ executed'[j] = executed[j]
      BY <1>1, <3>1, <3>3 DEF LineInv, Ordered
    <3> QED  BY <2>9, <3>2, <3>3
  <2>15. outcome[n] # "unused"
    BY <1>1, <2>1 DEF LineInv, Ordered, n
  <2>16. ASSUME NEW i \in DOMAIN executed'
         PROVE  /\ outcome'[executed'[i]] # "unused"
                /\ \A j \in DOMAIN queryQueue' : queryQueue'[j].id # 0 => executed'[i] < queryQueue'[j].id
                /\ activeQuery'.id # 0 => executed'[i] <= activeQuery'.id
    <3>1. CASE i = Len(executed) + 1
      <4>1. executed'[i] = n /\ n \in Int
        BY <2>1, <2>7, <3>1 DEF Notifies
      <4> QED  BY <1>2, <2>4, <2>5, <2>15, <4>1 DEF n
    <3>2. CASE i \in DOMAIN executed /\ executed'[i] = executed[i]
      BY <1>1, <1>2, <3>2 DEF LineInv, Ordered
    <3> QED  BY <2>9, <3>1, <3>2
  <2>17. Ordered'
    BY <1>1, <1>2, <2>8, <2>14, <2>16 DEF LineInv, Ordered, None
  <2> QED  BY <2>10, <2>12, <2>13, <2>17 DEF LineInv, Lined
<1> QED  BY <1>2, <1>3, <1>4

LEMMA LineBreak == ASSUME BunInv, Break  PROVE LineInv'
  BY LineUntouched DEF BunInv, LineInv, Break, client

-----------------------------------------------------------------------------
(* The listener and its wrapper.                                           *)

LEMMA BunStep == ASSUME BunInv, Next  PROVE BunInv'
<1> SUFFICES Session' /\ LineInv'
  BY DEF BunInv, LineInv
<1> USE DEF BunInv
<1>1. CASE ReconnectTimer
  BY <1>1, SessionReconnectTimer, LineReconnectTimer
<1>2. CASE Open
  BY <1>2, SessionOpen, LineOpen
<1>3. CASE ConnectFails
  BY <1>3, SessionConnectFails, LineConnectFails
<1>4. CASE SocketClose
  BY <1>4, SessionSocketClose, LineSocketClose
<1>5. CASE Negotiate
  BY <1>5, SessionNegotiate, LineNegotiate
<1>6. CASE AnswerReady
  BY <1>6, SessionAnswerReady, LineAnswerReady
<1>7. CASE StartupReady
  BY <1>7, SessionStartupReady, LineStartupReady
<1>8. CASE LateReady
  BY <1>8, SessionLateReady, LineLateReady
<1>9. CASE PostgresError
  BY <1>9, SessionPostgresError, LinePostgresError
<1>10. ASSUME NEW n \in Notifies, Notify(n)  PROVE Session' /\ LineInv'
  BY <1>10, SessionNotify, LineNotify
<1>11. CASE HealthCheck
  BY <1>11, SessionHealthCheck, LineHealthCheck
<1>12. CASE Close
  BY <1>12, SessionClose, LineClose
<1>13. CASE SslResponse
  BY <1>13, SessionSslResponse, LineSslResponse
<1>14. CASE Admit
  BY <1>14, SessionAdmit, LineAdmit
<1>15. CASE Refuse
  BY <1>15, SessionRefuse, LineRefuse
<1>16. CASE Execute
  BY <1>16, SessionExecute, LineExecute
<1>17. CASE Break
  BY <1>17, SessionBreak, LineBreak
<1> QED  BY <1>1, <1>2, <1>3, <1>4, <1>5, <1>6, <1>7, <1>8, <1>9, <1>10, <1>11, <1>12, <1>13, <1>14, <1>15, <1>16, <1>17 DEF Next, Messaging, Peer

LEMMA SubSeqLength ==
    ASSUME NEW s, NEW m \in Int, NEW n \in Int
    PROVE  Len(SubSeq(s, m, n)) = IF m <= n THEN n - m + 1 ELSE 0
  OBVIOUS

\* A sequence without its first element that is e.
LEMMA Removed ==
    ASSUME NEW S, NEW q \in Seq(S), NEW e, IsInjective(q)
    PROVE  /\ RemoveFirst(q, e) \in Seq(S)
           /\ ToSet(RemoveFirst(q, e)) = ToSet(q) \ {e}
           /\ IsInjective(RemoveFirst(q, e))
           /\ \A i, j \in DOMAIN RemoveFirst(q, e) : i < j =>
                \E k, l \in DOMAIN q : /\ k < l /\ q[k] = RemoveFirst(q, e)[i]
                                       /\ q[l] = RemoveFirst(q, e)[j]
<1> DEFINE r == RemoveFirst(q, e)
<1>1. Len(q) \in Nat /\ DOMAIN q = 1..Len(q)
  OBVIOUS
<1>2. CASE \A i \in 1..Len(q) : q[i] # e
  <2>1. r = q
    BY <1>2 DEF RemoveFirst
  <2>2. e \notin ToSet(q)
    BY <1>1, <1>2 DEF ToSet
  <2> HIDE DEF r
  <2>3. r \in Seq(S) /\ ToSet(r) = ToSet(q) \ {e} /\ IsInjective(r)
    BY <2>1, <2>2
  <2>4. \A i, j \in DOMAIN r : i < j => \E k, l \in DOMAIN q : k < l /\ q[k] = r[i] /\ q[l] = r[j]
    BY <2>1
  <2> QED  BY <2>3, <2>4 DEF r
<1>3. ASSUME NEW p \in 1..Len(q), q[p] = e
      PROVE  /\ r \in Seq(S) /\ ToSet(r) = ToSet(q) \ {e} /\ IsInjective(r)
             /\ \A i, j \in DOMAIN r : i < j => \E k, l \in DOMAIN q : k < l /\ q[k] = r[i] /\ q[l] = r[j]
  <2>1. \A i \in 1..Len(q) : q[i] = e <=> i = p
    BY <1>1, <1>3 DEF IsInjective
  <2>2. {i \in 1..Len(q) : q[i] = e} = {p}
    BY <2>1
  <2>3. Min({p}) = p
    BY DEF Min
  <2>4. r = SubSeq(q, 1, p - 1) \o SubSeq(q, p + 1, Len(q))
    BY <1>3, <2>2, <2>3 DEF RemoveFirst, RemoveAt, SelectInSeq
  <2> HIDE DEF r
  <2> DEFINE a == SubSeq(q, 1, p - 1)
             b == SubSeq(q, p + 1, Len(q))
  <2>5. a \in Seq(S) /\ Len(a) = p - 1 /\ \A i \in 1..(p - 1) : a[i] = q[i]
    BY <1>1
  <2>6. b \in Seq(S) /\ Len(b) = Len(q) - p /\ \A i \in 1..(Len(q) - p) : b[i] = q[p + i]
    <3>1. \A i \in (p + 1)..Len(q) : q[i] \in S
      BY <1>1
    <3>2. b \in Seq(S)
      BY <1>1, <3>1
    <3>3. Len(b) = Len(q) - p
      <4>1. Len(b) = IF p + 1 <= Len(q) THEN Len(q) - (p + 1) + 1 ELSE 0
        BY <1>1, <3>1, SubSeqLength
      <4> HIDE DEF b
      <4>2. p \in Int /\ Len(q) \in Int /\ p <= Len(q)
        BY <1>1
      <4>3. CASE p + 1 <= Len(q)
        BY <4>1, <4>2, <4>3
      <4>4. CASE p = Len(q)
        BY <4>1, <4>2, <4>4
      <4> QED  BY <4>2, <4>3, <4>4
    <3>4. \A i \in 1..(Len(q) - p) : b[i] = q[(p + 1) + i - 1]
      BY <1>1
    <3>5. \A i \in 1..(Len(q) - p) : (p + 1) + i - 1 = p + i
      BY <1>1
    <3> QED  BY <3>2, <3>3, <3>4, <3>5
  <2> HIDE DEF a, b
  <2>7. r = a \o b
    BY <2>4 DEF a, b
  <2>8. /\ r \in Seq(S) /\ Len(r) = Len(a) + Len(b) /\ DOMAIN r = 1..(Len(a) + Len(b))
        /\ \A i \in 1..(Len(a) + Len(b)) : r[i] = IF i <= Len(a) THEN a[i] ELSE b[i - Len(a)]
    <3>1. a \in Seq(S) /\ b \in Seq(S)
      BY <2>5, <2>6
    <3>2. r \in Seq(S) /\ Len(r) = Len(a) + Len(b) /\ DOMAIN r = 1..Len(r)
      BY <2>7, <3>1
    <3>3. \A i \in 1..(Len(a) + Len(b)) : r[i] = IF i <= Len(a) THEN a[i] ELSE b[i - Len(a)]
      BY <2>7, <3>1
    <3> QED  BY <3>2, <3>3
  <2>9. DOMAIN r = 1..(Len(q) - 1)
    BY <1>1, <2>5, <2>6, <2>8
  <2> DEFINE at(i) == IF i < p THEN i ELSE i + 1
  <2>10. \A i \in 1..(Len(q) - 1) : r[i] = q[at(i)] /\ at(i) \in 1..Len(q) /\ at(i) # p
    <3> TAKE i \in 1..(Len(q) - 1)
    <3>1. CASE i < p
      <4>1. i <= Len(a) /\ i \in 1..(Len(a) + Len(b)) /\ i \in 1..(p - 1)
        BY <1>1, <2>5, <2>6, <3>1
      <4>2. r[i] = a[i] /\ a[i] = q[i]
        BY <2>5, <2>8, <4>1
      <4> QED  BY <1>1, <3>1, <4>2
    <3>2. CASE ~(i < p)
      <4>1. r[i] = b[i - (p - 1)] /\ i - (p - 1) \in 1..(Len(q) - p)
        BY <1>1, <2>5, <2>6, <2>8, <3>2
      <4>2. b[i - (p - 1)] = q[p + (i - (p - 1))] /\ p + (i - (p - 1)) = i + 1
        BY <1>1, <2>6, <4>1
      <4> QED  BY <1>1, <3>2, <4>1, <4>2
    <3> QED  BY <3>1, <3>2
  <2>11. \A i, j \in 1..(Len(q) - 1) : i < j => at(i) < at(j)
    BY <1>1
  <2>12. \A j \in 1..Len(q) : j # p => \E i \in 1..(Len(q) - 1) : at(i) = j
    <3> TAKE j \in 1..Len(q)
    <3> HAVE j # p
    <3>1. CASE j < p
      BY <1>1, <3>1
    <3>2. CASE p < j
      <4>1. j - 1 \in 1..(Len(q) - 1) /\ at(j - 1) = j
        BY <1>1, <3>2
      <4> QED  BY <4>1
    <3> QED  BY <1>1, <3>1, <3>2
  <2> HIDE DEF at
  <2>13. ToSet(r) = ToSet(q) \ {e}
    <3>1. ASSUME NEW x \in ToSet(r)  PROVE x \in ToSet(q) \ {e}
      <4>1. PICK i \in 1..(Len(q) - 1) : x = r[i]
        BY <2>9 DEF ToSet
      <4>2. x = q[at(i)] /\ at(i) \in 1..Len(q) /\ at(i) # p
        BY <2>10, <4>1
      <4> QED  BY <1>1, <2>1, <4>2 DEF ToSet
    <3>2. ASSUME NEW x \in ToSet(q), x # e  PROVE x \in ToSet(r)
      <4>1. PICK j \in 1..Len(q) : x = q[j]
        BY <1>1 DEF ToSet
      <4>2. j # p
        BY <2>1, <3>2, <4>1
      <4>3. PICK i \in 1..(Len(q) - 1) : at(i) = j
        BY <2>12, <4>2
      <4>4. r[i] = x
        BY <2>10, <4>1, <4>3
      <4> QED  BY <2>9, <4>4 DEF ToSet
    <3> QED  BY <3>1, <3>2
  <2>14. IsInjective(r)
    <3> SUFFICES ASSUME NEW i \in 1..(Len(q) - 1), NEW j \in 1..(Len(q) - 1), r[i] = r[j]
                 PROVE  i = j
      BY <2>9 DEF IsInjective
    <3>1. at(i) = at(j)
      BY <1>1, <2>10 DEF IsInjective
    <3>2. ~(i < j) /\ ~(j < i)
      <4>1. at(i) \in Int
        BY <2>10
      <4>2. ~(at(i) < at(j)) /\ ~(at(j) < at(i))
        BY <3>1, <4>1
      <4> QED  BY <2>11, <4>2
    <3> QED  BY <1>1, <3>2
  <2>15. \A i, j \in DOMAIN r : i < j => \E k, l \in DOMAIN q : k < l /\ q[k] = r[i] /\ q[l] = r[j]
    <3> TAKE i, j \in DOMAIN r
    <3> HAVE i < j
    <3>1. at(i) < at(j) /\ at(i) \in DOMAIN q /\ at(j) \in DOMAIN q /\ q[at(i)] = r[i] /\ q[at(j)] = r[j]
      BY <1>1, <2>9, <2>10, <2>11
    <3> QED  BY <3>1
  <2> QED  BY <2>8, <2>13, <2>14, <2>15
<1> HIDE DEF r
<1> QED  BY <1>2, <1>3 DEF r

LEMMA WithinKeeps == ASSUME LazyInv, handle = "set", Next, UNCHANGED wrapper,
                            deaf' = (deaf \/ (reconnectAttempts' > reconnectAttempts /\ handler = "queued"))
                     PROVE  LazyInv' /\ deaf' = FALSE
<1>1. BunInv'
  BY BunStep DEF LazyInv
<1>2. Wrapped' /\ deaf' = FALSE
  BY DEF LazyInv, Wrapped, wrapper
<1> QED  BY <1>1, <1>2 DEF LazyInv, wrapper

LEMMA WithinNext ==
    ASSUME \/ Within(ReconnectTimer) \/ Within(Open) \/ Within(ConnectFails) \/ Within(SocketClose)
           \/ Within(Messaging)
           \/ \E n \in Notifies : Within(Notify(n))
           \/ Within(HealthCheck)
           \/ Within(Close)
           \/ Within(Peer)
    PROVE  /\ handle = "set" /\ Next /\ UNCHANGED wrapper
           /\ deaf' = (deaf \/ (reconnectAttempts' > reconnectAttempts /\ handler = "queued"))
  BY DEF Within, Next

\* The calls that waited are in line when the import has ended.
LEMMA LoadKeeps == ASSUME LazyInv, Load  PROVE LazyInv'
<1> DEFINE r == RemoveFirst(queue, Subscription)
<1>1. /\ handle = "loading" /\ Wrapped /\ Dormant /\ Waiting
      /\ UNCHANGED <<status, closed, startupReady, readyForQuery, connectionPhase, reconnectTimer,
                     healthTimer, activeQuery, activeError, reconnectAttempts, outcome, peer, link,
                     wire, stale, faults, closedEarly, dropped, deaf>>
  BY DEF LazyInv, Load
<1>2. CASE closedEarly
  <2>1. handle' = "abandoned" /\ UNCHANGED <<queue, queryQueue, handler>>
    BY <1>2 DEF Load, MayHandle
  <2>2. Wrapped'
    BY <1>1, <1>2, <2>1 DEF Wrapped
  <2>3. Dormant' /\ Waiting'
    BY <1>1, <2>1 DEF Dormant, Waiting, peer
  <2> QED  BY <2>1, <2>2, <2>3 DEF LazyInv
<1>3. CASE ~closedEarly
  <2>1. /\ handle' = "set" /\ queue' = <<>>
        /\ queryQueue' = [i \in DOMAIN r |-> NotifyQuery(r[i])]
        /\ handler' = IF Subscription \in ToSet(queue) THEN "on" ELSE handler
    BY <1>3 DEF Load, MayHandle, Forwarded, HandlerCalled
  <2>2. /\ r \in Seq(Notifies \cup {Subscription}) /\ ToSet(r) = ToSet(queue) \ {Subscription}
        /\ IsInjective(r)
        /\ \A i, j \in DOMAIN r : i < j =>
                \E k, l \in DOMAIN queue : k < l /\ queue[k] = r[i] /\ queue[l] = r[j]
    BY <1>1, Removed DEF Wrapped, Waiting
  <2> HIDE DEF r
  <2>3. \A i \in DOMAIN r : r[i] \in Notifies /\ r[i] # 0
    <3> TAKE i \in DOMAIN r
    <3>1. r[i] \in ToSet(r)
      BY DEF ToSet
    <3>2. r[i] \in Notifies \cup {Subscription}
      BY <2>2
    <3> QED  BY <2>2, <3>1, <3>2 DEF Subscription
  <2>4. Len(r) \in Nat /\ DOMAIN r = 1..Len(r)
    BY <2>2
  <2>5. /\ queryQueue' \in Seq(Queries) /\ DOMAIN queryQueue' = 1..Len(r)
        /\ \A i \in 1..Len(r) : queryQueue'[i] = NotifyQuery(r[i])
    <3>1. \A i \in 1..Len(r) : NotifyQuery(r[i]) \in Queries
      BY <2>3, <2>4, QueriesNamed
    <3> QED  BY <2>1, <2>4, <3>1
  <2>6. Unanswered' = queryQueue'
    BY <1>1 DEF Dormant, Unanswered
  <2>7. \A i \in DOMAIN r : NotifyQuery(r[i]).id = r[i] /\ NotifyQuery(r[i]).kind = "notify"
    BY DEF NotifyQuery
  <2>8. InLine(Unanswered')
    <3>1. \A i \in 1..Len(r) : queryQueue'[i].kind = "notify" /\ queryQueue'[i].id = r[i] /\ r[i] # 0
      BY <2>3, <2>4, <2>5, <2>7
    <3>2. \A i, j \in 1..Len(r) : i < j => r[i] < r[j]
      <4> TAKE i, j \in 1..Len(r)
      <4> HAVE i < j
      <4>1. PICK k, l \in DOMAIN queue : k < l /\ queue[k] = r[i] /\ queue[l] = r[j]
        BY <2>2, <2>4
      <4>2. queue[k] # 0 /\ queue[l] # 0
        BY <3>1, <4>1
      <4> QED  BY <1>1, <4>1, <4>2 DEF Waiting
    <3>3. \A i, j \in 1..Len(r) : queryQueue'[i] = queryQueue'[j] => i = j
      BY <2>2, <2>4, <3>1 DEF IsInjective
    <3> QED  BY <2>5, <2>6, <3>1, <3>2, <3>3 DEF InLine
  <2>9. \A n \in Notifies : NotifyQuery(n) \in ToSet(Unanswered') <=> n \in ToSet(r)
    <3> TAKE n \in Notifies
    <3>1. ASSUME NotifyQuery(n) \in ToSet(queryQueue')  PROVE n \in ToSet(r)
      <4>1. PICK i \in 1..Len(r) : NotifyQuery(n) = NotifyQuery(r[i])
        BY <2>5, <3>1 DEF ToSet
      <4>2. n = r[i]
        BY <4>1 DEF NotifyQuery
      <4> QED  BY <2>4, <4>2 DEF ToSet
    <3>2. ASSUME n \in ToSet(r)  PROVE NotifyQuery(n) \in ToSet(queryQueue')
      <4>1. PICK i \in 1..Len(r) : n = r[i]
        BY <2>4, <3>2 DEF ToSet
      <4> QED  BY <2>5, <4>1 DEF ToSet
    <3> QED  BY <2>6, <3>1, <3>2
  <2>10. Promised'
    <3>1. \A n \in Notifies : outcome'[n] = "pending" <=> NotifyQuery(n) \in ToSet(Unanswered')
      <4> TAKE n \in Notifies
      <4>1. outcome[n] = "pending" <=> n \in ToSet(queue)
        BY <1>1, <1>3 DEF Wrapped, Waiting
      <4>2. n # Subscription
        BY DEF Notifies, Subscription
      <4> QED  BY <1>1, <2>2, <2>9, <4>1, <4>2
    <3> QED  BY <1>1, <3>1 DEF Waiting, Promised
  <2>11. Line'
    <3>1. \A i \in DOMAIN queryQueue' : queryQueue'[i] # Listen
      BY <2>3, <2>4, <2>5, QueriesNamed
    <3> QED  BY <1>1, <2>8, <3>1 DEF Line, Dormant, peer, None
  <2>12. Queued'
    <3>1. outcome' \in [Notifies -> Outcomes]
      BY <1>1 DEF Waiting, Outcomes
    <3>2. executed' \in Seq(Notifies)
      BY <1>1 DEF Dormant, peer
    <3> QED  BY <1>1, <2>5, <3>1, <3>2 DEF Queued, Dormant, peer
  <2>13. Ordered'
    <3>1. DOMAIN executed' = {} /\ asked'.id = 0
      BY <1>1 DEF Dormant, peer, None
    <3>2. \A n \in Notifies : outcome'[n] # "resolved"
      BY <1>1 DEF Waiting
    <3> QED  BY <3>1, <3>2 DEF Ordered
  <2>14. Session'
    <3> USE <1>1 DEF Dormant, peer
    <3>1. Flags' /\ Values' /\ Single' /\ Fresh'
      BY DEF Flags, Values, Single, Fresh
    <3>2. Carried'
      BY DEF Carried
    <3>3. Protocol' /\ Answers'
      BY QueriesNamed DEF Protocol, Answers
    <3>4. Counted'
      <4>1. ~Failing'
        BY DEF Failing
      <4> QED  BY <4>1, FaultAssumption DEF Counted
    <3> QED  BY <3>1, <3>2, <3>3, <3>4 DEF Session
  <2>15. Wrapped'
    <3>1. queue' \in Seq(Notifies \cup {Subscription}) /\ ToSet(queue') = {}
      BY <2>1 DEF ToSet
    <3> QED  BY <1>1, <1>3, <2>1, <3>1 DEF Wrapped
  <2> QED  BY <2>1, <2>10, <2>11, <2>12, <2>13, <2>14, <2>15 DEF LazyInv, BunInv
<1> QED  BY <1>1, <1>2, <1>3 DEF Wrapped

LEMMA LoadFailsKeeps == ASSUME LazyInv, LoadFails  PROVE LazyInv'
<1>1. /\ handle = "loading" /\ Wrapped /\ Dormant /\ Waiting
      /\ handle' = "failed" /\ queue' = <<>> /\ outcome' = Rejected
      /\ UNCHANGED <<status, closed, startupReady, readyForQuery, connectionPhase, reconnectTimer,
                     healthTimer, queryQueue, activeQuery, activeError, reconnectAttempts, peer,
                     link, wire, stale, faults, closedEarly, dropped, handler, deaf>>
  BY DEF LazyInv, LoadFails
<1>2. queue' \in Seq(Notifies \cup {Subscription}) /\ ToSet(queue') = {} /\ DOMAIN queue' = {}
  BY <1>1 DEF ToSet
<1>3. Wrapped'
  BY <1>1, <1>2 DEF Wrapped
<1>4. Dormant'
  BY <1>1 DEF Dormant, peer
<1>5. \A n \in Notifies : outcome'[n] = IF n \in ToSet(queue) THEN "rejected" ELSE outcome[n]
  BY <1>1 DEF Rejected, Notified
<1>6. outcome' \in [Notifies -> {"unused", "pending", "rejected"}]
  BY <1>1, <1>5 DEF Waiting, Rejected
<1>7. /\ \A n \in Notifies : (outcome'[n] = "pending") <=> (n \in dropped)
      /\ \A n \in Notifies : (outcome'[n] # "unused") <=> (outcome[n] # "unused")
  <2>1. /\ \A n \in Notifies : (outcome[n] = "pending") <=> (n \in ToSet(queue) \/ n \in dropped)
        /\ \A n \in Notifies : ~(n \in dropped /\ n \in ToSet(queue))
    BY <1>1 DEF Waiting
  <2> SUFFICES ASSUME NEW n \in Notifies
               PROVE  /\ (outcome'[n] = "pending") <=> (n \in dropped)
                      /\ (outcome'[n] # "unused") <=> (outcome[n] # "unused")
    OBVIOUS
  <2>2. CASE n \in ToSet(queue)
    <3>1. outcome'[n] = "rejected" /\ outcome[n] = "pending" /\ n \notin dropped
      BY <1>5, <2>1, <2>2
    <3> QED  BY <3>1
  <2>3. CASE n \notin ToSet(queue)
    <3>1. outcome'[n] = outcome[n]
      BY <1>5, <2>3
    <3> QED  BY <2>1, <2>3, <3>1
  <2> QED  BY <2>2, <2>3
<1>8. Waiting'
  <2>1. \A m, n \in Notifies : m < n /\ outcome[n] # "unused" => outcome[m] # "unused"
    BY <1>1 DEF Waiting
  <2>2. \A m, n \in Notifies : m < n /\ outcome'[n] # "unused" => outcome'[m] # "unused"
    BY <1>7, <2>1
  <2>3. dropped' = dropped
    BY <1>1
  <2>4. \A n \in Notifies : outcome'[n] = "pending" <=> n \in ToSet(queue') \cup dropped'
    BY <1>2, <1>7, <2>3
  <2> QED  BY <1>2, <1>6, <2>2, <2>4 DEF Waiting, IsInjective
<1> QED  BY <1>1, <1>3, <1>4, <1>8 DEF LazyInv

LEMMA LazyNotifyKeeps == ASSUME LazyInv, NEW n \in Notifies, LazyNotify(n)  PROVE LazyInv'
<1>1. /\ handle # "set" /\ Wrapped /\ Dormant /\ Waiting
      /\ outcome[n] = "unused" /\ \A m \in Notifies : m < n => outcome[m] # "unused"
      /\ UNCHANGED <<status, closed, startupReady, readyForQuery, connectionPhase, reconnectTimer,
                     healthTimer, queryQueue, activeQuery, activeError, reconnectAttempts, peer,
                     link, wire, stale, faults, handle, closedEarly, dropped, handler, deaf>>
  BY DEF LazyInv, LazyNotify
<1>2. Dormant'
  BY <1>1 DEF Dormant, peer
<1>3. n # Subscription
  BY DEF Notifies, Subscription
<1>4. n \notin ToSet(queue) /\ n \notin dropped
  BY <1>1 DEF Waiting
<1>5. CASE handle = "failed"
  <2>1. outcome' = [outcome EXCEPT ![n] = "rejected"] /\ UNCHANGED queue
    BY <1>5 DEF LazyNotify
  <2>2. \A m \in Notifies : outcome'[m] = IF m = n THEN "rejected" ELSE outcome[m]
    BY <1>1, <2>1 DEF Waiting
  <2>3. outcome' \in [Notifies -> {"unused", "pending", "rejected"}]
    BY <1>1, <2>1 DEF Waiting
  <2>4. Waiting'
    BY <1>1, <1>4, <2>1, <2>2, <2>3 DEF Waiting
  <2>5. Wrapped'
    BY <1>1, <2>1 DEF Wrapped
  <2> QED  BY <1>1, <1>2, <2>4, <2>5 DEF LazyInv
<1>6. CASE handle # "failed"
  <2>1. outcome' = [outcome EXCEPT ![n] = "pending"] /\ queue' = Append(queue, n)
    BY <1>6 DEF LazyNotify
  <2>2. \A m \in Notifies : outcome'[m] = IF m = n THEN "pending" ELSE outcome[m]
    BY <1>1, <2>1 DEF Waiting
  <2>3. outcome' \in [Notifies -> {"unused", "pending", "rejected"}]
    BY <1>1, <2>1 DEF Waiting
  <2>4. queue \in Seq(Notifies \cup {Subscription}) /\ n \in Notifies \cup {Subscription}
    BY <1>1 DEF Wrapped
  <2>5. queue' \in Seq(Notifies \cup {Subscription}) /\ ToSet(queue') = ToSet(queue) \cup {n}
    BY <2>1, <2>4, SetOfAppended
  <2>6. /\ Len(queue) \in Nat /\ DOMAIN queue = 1..Len(queue) /\ DOMAIN queue' = 1..(Len(queue) + 1)
        /\ \A i \in 1..Len(queue) : queue'[i] = queue[i]
        /\ queue'[Len(queue) + 1] = n
    BY <2>1, <2>4
  <2>7. \A i \in DOMAIN queue' : i = Len(queue) + 1 \/ (i \in DOMAIN queue /\ queue'[i] = queue[i])
    BY <2>6
  <2>8. \A i \in DOMAIN queue : queue[i] # n /\ (queue[i] # 0 => queue[i] < n)
    <3> TAKE i \in DOMAIN queue
    <3>1. queue[i] \in ToSet(queue) /\ queue[i] \in Notifies \cup {Subscription}
      BY <2>4 DEF ToSet
    <3>2. queue[i] # n
      BY <1>4, <3>1
    <3>3. ASSUME queue[i] # 0  PROVE queue[i] < n
      <4>1. queue[i] \in Notifies /\ outcome[queue[i]] = "pending"
        BY <1>1, <3>1, <3>3 DEF Waiting, Subscription
      <4>2. ~(n < queue[i])
        BY <1>1, <4>1 DEF Waiting
      <4> QED  BY <3>2, <4>1, <4>2 DEF Notifies
    <3> QED  BY <3>2, <3>3
  <2>9. \A i, j \in DOMAIN queue' : i < j /\ queue'[i] # 0 /\ queue'[j] # 0 => queue'[i] < queue'[j]
    <3> TAKE i, j \in DOMAIN queue'
    <3> HAVE i < j /\ queue'[i] # 0 /\ queue'[j] # 0
    <3>1. i \in DOMAIN queue /\ queue'[i] = queue[i]
      BY <2>6
    <3>2. CASE j = Len(queue) + 1
      BY <2>6, <2>8, <3>1, <3>2
    <3>3. CASE j \in DOMAIN queue /\ queue'[j] = queue[j]
      BY <1>1, <3>1, <3>3 DEF Waiting
    <3> QED  BY <2>7, <3>2, <3>3
  <2>10. IsInjective(queue')
    <3> SUFFICES ASSUME NEW i \in DOMAIN queue', NEW j \in DOMAIN queue', queue'[i] = queue'[j]
                 PROVE  i = j
      BY DEF IsInjective
    <3>1. CASE i \in DOMAIN queue /\ queue'[i] = queue[i] /\ j \in DOMAIN queue /\ queue'[j] = queue[j]
      BY <1>1, <3>1 DEF Waiting, IsInjective
    <3>2. CASE i = Len(queue) + 1 \/ j = Len(queue) + 1
      BY <2>6, <2>7, <2>8, <3>2
    <3> QED  BY <2>7, <3>1, <3>2
  <2>11. \A m \in Notifies : outcome'[m] = "pending" <=> m \in ToSet(queue') \cup dropped'
    BY <1>1, <2>2, <2>5 DEF Waiting
  <2>12. \A k, m \in Notifies : k < m /\ outcome'[m] # "unused" => outcome'[k] # "unused"
    BY <1>1, <2>2 DEF Waiting
  <2>13. Waiting'
    BY <1>1, <1>4, <2>3, <2>5, <2>9, <2>10, <2>11, <2>12 DEF Waiting
  <2>14. Wrapped'
    BY <1>1, <1>3, <2>5 DEF Wrapped
  <2> QED  BY <1>1, <1>2, <2>13, <2>14 DEF LazyInv
<1> QED  BY <1>5, <1>6

LEMMA LazyCloseKeeps == ASSUME LazyInv, LazyClose  PROVE LazyInv'
<1>1. /\ handle # "set" /\ Wrapped /\ Dormant /\ Waiting /\ closedEarly' = TRUE
      /\ queue' = <<>> /\ dropped' = dropped \cup Notified(queue)
      /\ UNCHANGED <<vars, handle, handler, deaf>>
  BY DEF LazyInv, LazyClose
<1>2. queue' \in Seq(Notifies \cup {Subscription}) /\ ToSet(queue') = {} /\ DOMAIN queue' = {}
  BY <1>1 DEF ToSet
<1>3. Dormant'
  BY <1>1 DEF Dormant, vars, client, peer
<1>4. Wrapped'
  BY <1>1, <1>2 DEF Wrapped, Notified
<1>5. UNCHANGED outcome
  BY <1>1 DEF vars, client
<1>6. Waiting'
  BY <1>1, <1>2, <1>5 DEF Waiting, Notified, IsInjective
<1> QED  BY <1>1, <1>3, <1>4, <1>6 DEF LazyInv

LEMMA UnsubscribeKeeps == ASSUME LazyInv, Unsubscribe  PROVE LazyInv'
<1>1. /\ Wrapped /\ handler' = "off" /\ UNCHANGED <<vars, handle, closedEarly, dropped, deaf>>
      /\ queue' = RemoveFirst(queue, Subscription)
  BY DEF LazyInv, Unsubscribe
<1>2. IsInjective(queue)
  <2>1. CASE handle = "set"
    BY <1>1, <2>1 DEF Wrapped, IsInjective
  <2>2. CASE handle # "set"
    BY <2>2 DEF LazyInv, Waiting
  <2> QED  BY <2>1, <2>2
<1>3. /\ queue' \in Seq(Notifies \cup {Subscription}) /\ ToSet(queue') = ToSet(queue) \ {Subscription}
      /\ IsInjective(queue')
      /\ \A i, j \in DOMAIN queue' : i < j =>
                \E k, l \in DOMAIN queue : k < l /\ queue[k] = queue'[i] /\ queue[l] = queue'[j]
  BY <1>1, <1>2, Removed DEF Wrapped
<1>4. handle = "set" => queue' = <<>>
  <2> SUFFICES ASSUME handle = "set"  PROVE queue' = <<>>
    OBVIOUS
  <2>1. ToSet(queue') = {}
    BY <1>1, <1>3 DEF Wrapped, ToSet
  <2> QED  BY <1>3, <2>1 DEF ToSet
<1>5. Wrapped'
  BY <1>1, <1>3, <1>4 DEF Wrapped
<1>6. CASE handle = "set"
  <2>1. BunInv' = BunInv
    BY <1>1 DEF vars, client, peer, BunInv, Session, Flags, Values, Single, Fresh, Carried, Protocol,
                Answers, Done, Counted, Failing, Queued, Line, Unanswered, Promised, Ordered
  <2> QED  BY <1>1, <1>5, <1>6, <2>1 DEF LazyInv
<1>7. CASE handle # "set"
  <2>1. Dormant /\ Waiting /\ UNCHANGED outcome
    BY <1>1, <1>7 DEF LazyInv, vars, client
  <2>2. Dormant'
    BY <1>1, <2>1 DEF Dormant, vars, client, peer
  <2>3. \A i, j \in DOMAIN queue' : i < j /\ queue'[i] # 0 /\ queue'[j] # 0 => queue'[i] < queue'[j]
    BY <1>3, <2>1 DEF Waiting
  <2>4. \A n \in Notifies : n # Subscription
    BY DEF Notifies, Subscription
  <2>5. Waiting'
    BY <1>1, <1>3, <2>1, <2>3, <2>4 DEF Waiting
  <2> QED  BY <1>1, <1>5, <1>7, <2>2, <2>5 DEF LazyInv
<1> QED  BY <1>6, <1>7
-----------------------------------------------------------------------------
(* The theorems.                                                           *)

\* Through every call and failure, the queries of the listener are in line in
\* the order of the calls, what is on its way answers the first of them, and
\* the calls before the import has ended wait in the wrapper's queue
\* (createPgListener, createBunPgListener).
THEOREM BunInvariant == LazySpec => []LazyInv
<1>1. LazyInit => LazyInv
  <2> SUFFICES ASSUME LazyInit  PROVE LazyInv
    OBVIOUS
  <2>1. Dormant
    BY DEF LazyInit, Init, Dormant
  <2>2. /\ queue = <<Subscription>> /\ handle = "loading" /\ handler = "queued" /\ dropped = {}
        /\ closedEarly = FALSE /\ deaf = FALSE /\ outcome = [n \in Notifies |-> "unused"]
    BY DEF LazyInit, Init
  <2>3. /\ queue \in Seq(Notifies \cup {Subscription}) /\ DOMAIN queue = {1} /\ queue[1] = 0
        /\ ToSet(queue) = {Subscription}
    BY <2>2 DEF ToSet, Subscription
  <2>4. Wrapped
    BY <2>2, <2>3 DEF Wrapped
  <2>5. Waiting
    BY <2>2, <2>3 DEF Waiting, IsInjective, Notifies, Subscription
  <2> QED  BY <2>1, <2>2, <2>4, <2>5 DEF LazyInv
<1>2. LazyInv /\ [LazyNext]_lazyVars => LazyInv'
  <2> SUFFICES ASSUME LazyInv, [LazyNext]_lazyVars  PROVE LazyInv'
    OBVIOUS
  <2>1. CASE Load
    BY <2>1, LoadKeeps
  <2>2. CASE LoadFails
    BY <2>2, LoadFailsKeeps
  <2>3. ASSUME NEW n \in Notifies, LazyNotify(n)  PROVE LazyInv'
    BY <2>3, LazyNotifyKeeps
  <2>4. CASE LazyClose
    BY <2>4, LazyCloseKeeps
  <2>5. CASE Unsubscribe
    BY <2>5, UnsubscribeKeeps
  <2>6. CASE \/ Within(ReconnectTimer) \/ Within(Open) \/ Within(ConnectFails) \/ Within(SocketClose)
             \/ Within(Messaging)
             \/ \E n \in Notifies : Within(Notify(n))
             \/ Within(HealthCheck)
             \/ Within(Close)
             \/ Within(Peer)
    BY <2>6, WithinNext, WithinKeeps
  <2>7. CASE UNCHANGED lazyVars
    BY <2>7 DEF lazyVars, wrapper, vars, client, peer, LazyInv, Wrapped, Dormant, Waiting, BunInv, Session,
                Flags, Values, Single, Fresh, Carried, Protocol, Answers, Done, Counted, Failing, Queued,
                Line, Unanswered, Promised, Ordered
  <2> QED  BY <2>1, <2>2, <2>3, <2>4, <2>5, <2>6, <2>7 DEF LazyNext
<1> QED  BY <1>1, <1>2, PTL DEF LazySpec

\* Every reachable state is well typed; a connection attempt is counted only
\* for a failure (scheduleReconnect).
THEOREM TypeCorrect == LazySpec => []LazyTypeOK
<1>1. LazyInv => LazyTypeOK
  <2> SUFFICES ASSUME LazyInv  PROVE LazyTypeOK
    OBVIOUS
  <2>1. Wrapped
    BY DEF LazyInv
  <2>2. CASE handle = "set"
    <3>1. Session /\ Queued
      BY <2>2 DEF LazyInv, BunInv
    <3>2. reconnectAttempts \in 0..MaxFaults /\ faults \in 0..MaxFaults
      BY <3>1, FaultAssumption DEF Session, Counted
    <3>3. TypeOK
      BY <3>1, <3>2 DEF Session, Flags, Values, Queued, Carried, TypeOK
    <3> QED  BY <2>1, <3>3 DEF Wrapped, LazyTypeOK
  <2>3. CASE handle # "set"
    <3>1. Dormant /\ Waiting
      BY <2>3 DEF LazyInv
    <3>2. reconnectAttempts \in 0..MaxFaults /\ faults \in 0..MaxFaults
      BY <3>1, FaultAssumption DEF Dormant
    <3>3. queryQueue \in Seq(Queries) /\ wire \in Seq(Messages) /\ executed \in Seq(Notifies)
      BY <3>1 DEF Dormant
    <3>4. outcome \in [Notifies -> Outcomes]
      BY <3>1 DEF Waiting, Outcomes
    <3>5. TypeOK
      BY <3>1, <3>2, <3>3, <3>4 DEF Dormant, TypeOK
    <3> QED  BY <2>1, <3>5 DEF Wrapped, LazyTypeOK
  <2> QED  BY <2>2, <2>3
<1> QED  BY <1>1, BunInvariant, PTL

\* No promise of notify() is forgotten or settled twice: it is pending exactly
\* as long as its call is in one place of the two queues.
THEOREM PromisesAccounted == LazySpec => []Accounted
<1>1. LazyInv => Accounted
  <2> SUFFICES ASSUME LazyInv  PROVE Accounted
    OBVIOUS
  <2>1. CASE handle = "set"
    <3>1. Line /\ Promised /\ queue = <<>> /\ dropped = {}
      BY <2>1 DEF LazyInv, BunInv, Wrapped
    <3>2. ToSet(queue) = {} /\ IsInjective(queue)
      BY <3>1 DEF ToSet, IsInjective
    <3> QED  BY <3>1, <3>2 DEF Line, InLine, Promised, Accounted, IsInjective
  <2>2. CASE handle # "set"
    <3>1. Dormant /\ Waiting
      BY <2>2 DEF LazyInv
    <3>2. Unanswered = <<>>
      BY <3>1 DEF Dormant, Unanswered
    <3>3. ToSet(Unanswered) = {} /\ IsInjective(Unanswered)
      BY <3>2 DEF ToSet, IsInjective
    <3> QED  BY <2>2, <3>1, <3>2, <3>3 DEF Waiting, Accounted
  <2> QED  BY <2>1, <2>2
<1> QED  BY <1>1, BunInvariant, PTL

\* Whatever fails, a notification is executed at most once, in the order of the
\* calls, and every one whose promise is resolved (flushQueryQueue,
\* rejectActiveQuery: nothing is sent again).
THEOREM ExecutedAtMostOnce == LazySpec => []ExecutedOnce
<1>1. LazyInv => ExecutedOnce
  <2>1. BunInv => ExecutedOnce
    BY DEF BunInv, Ordered, ExecutedOnce
  <2>2. Dormant /\ Waiting => ExecutedOnce
    <3> SUFFICES ASSUME Dormant, Waiting  PROVE ExecutedOnce
      OBVIOUS
    <3>1. DOMAIN executed = {} /\ \A n \in Notifies : outcome[n] # "resolved"
      BY DEF Dormant, Waiting
    <3> QED  BY <3>1 DEF ExecutedOnce
  <2> QED  BY <2>1, <2>2 DEF LazyInv
<1> QED  BY <1>1, BunInvariant, PTL

\* Until close() something always connects the listener, and the timer never
\* makes it abandon a socket (connect, scheduleReconnect).
THEOREM AlwaysConnecting == LazySpec => []OneConnection
<1>1. LazyInv => OneConnection
  <2>1. BunInv => OneConnection
    BY DEF BunInv, Session, Flags, Single, OneConnection
  <2>2. Dormant => OneConnection
    BY DEF Dormant, OneConnection
  <2> QED  BY <2>1, <2>2 DEF LazyInv
<1> QED  BY <1>1, BunInvariant, PTL

\* "connected" is reported only after the server has executed LISTEN on this
\* connection, and until its loss is noticed (markConnected, getHealth).
THEOREM ConnectedMeansListening == LazySpec => []ConnectedListens
<1>1. LazyInv => ConnectedListens
  <2>1. BunInv => ConnectedListens
    BY DEF BunInv, Session, Answers, Conn, ConnectedListens
  <2>2. Dormant => ConnectedListens
    BY DEF Dormant, ConnectedListens
  <2> QED  BY <2>1, <2>2 DEF LazyInv
<1> QED  BY <1>1, BunInvariant, PTL

-----------------------------------------------------------------------------
(* The refinement of PgListener.                                           *)

\* A step of the listener is one of the contract's, seen without the wrapper:
\* LISTEN takes effect from "starting" or "down" only, and a connection is
\* "down" after a loss only by way of "reconnect".
ConnStep ==
    \/ Conn' = Conn
    \/ Conn \in {"starting", "down"} /\ Conn' = "up"
    \/ Conn = "up" /\ Conn' = "lost"
    \/ Conn \in {"starting", "down", "lost"} /\ Conn' = "down"
    \/ Conn # "off" /\ Conn' = "off"

LEMMA ConnKept ==
    ASSUME UNCHANGED <<closed, listening, link, stale, reconnectAttempts>>
    PROVE  ConnStep
  BY DEF Conn, ConnStep

\* LISTEN done marks the listener connected: only then are the attempts
\* forgotten, and LISTEN is in effect then.
LEMMA ConnAnswerReady == ASSUME Session, AnswerReady, HasChannels  PROVE ConnStep
<1> USE DEF Session
<1>1. Read("ready") /\ activeQuery # None /\ UNCHANGED <<closed, listening, stale>>
  BY DEF AnswerReady
<1>2. wire # <<>> /\ wire[1] = "ready" /\ link \in {"open", "ended", "broken"}
  BY <1>1, Received
<1>3. reconnectAttempts' = reconnectAttempts \/ (listening /\ ~closed)
  BY <1>1, <1>2 DEF AnswerReady, Registered, MarkConnected, Answers, Done
<1>4. link' = link \/ (link = "open" /\ link' = "ended")
  BY DEF AnswerReady, Ended
<1>5. stale = FALSE /\ listening \in BOOLEAN
  BY DEF Flags
<1> QED  BY <1>1, <1>3, <1>4, <1>5 DEF Conn, ConnStep

LEMMA ConnExecute == ASSUME Session, Execute  PROVE ConnStep
<1>1. /\ link \in {"open", "ended"} /\ listening \in BOOLEAN /\ stale = FALSE
      /\ asked = Listen /\ ~closed => link = "open"
      /\ UNCHANGED <<closed, link, stale, reconnectAttempts>>
      /\ listening' = listening \/ listening' = (listening \/ asked = Listen)
  BY DEF Execute, Reachable, Session, Flags, Protocol, client
<1> QED  BY <1>1 DEF Conn, ConnStep

LEMMA ConnLoss == ASSUME Session, ConnectFails \/ SocketClose  PROVE ConnStep
<1>1. reconnectAttempts \in Nat /\ stale = FALSE
  BY DEF Session, Counted, Flags
<1>2. CASE closed
  <2>1. closed'
    BY <1>2 DEF ConnectFails, Retry, SocketClose, client
  <2> QED  BY <1>2, <2>1 DEF Conn, ConnStep
<1>3. CASE ~closed
  <2>1. /\ reconnectAttempts' = reconnectAttempts + 1 /\ stale' = FALSE
        /\ link' = "none" /\ link # "open"
    BY <1>3 DEF ConnectFails, Retry, SocketClose, ScheduleReconnect, EmitReconnect
  <2>2. ~listening'
    BY <1>3 DEF ConnectFails, SocketClose, peer, Session, Fresh
  <2>3. reconnectAttempts' # 0
    BY <1>1, <2>1
  <2>4. Conn \in {"starting", "down", "lost"}
    BY <1>3, <2>1 DEF Conn
  <2>5. Conn' \in {"down", "off"}
    BY <2>1, <2>2, <2>3 DEF Conn
  <2>6. Conn # "off"
    BY <2>4
  <2> QED  BY <2>4, <2>5, <2>6 DEF ConnStep
<1> QED  BY <1>2, <1>3

LEMMA ConnSteps == ASSUME BunInv, Next, HasChannels  PROVE ConnStep
<1>1. Session /\ stale = FALSE
  BY DEF BunInv, Session, Flags
<1>2. CASE ReconnectTimer
  <2>1. ~listening
    BY <1>1, <1>2 DEF ReconnectTimer, Session, Single, Fresh
  <2>2. UNCHANGED <<closed, listening, stale, reconnectAttempts>>
    BY <1>2 DEF ReconnectTimer, peer
  <2> QED  BY <2>1, <2>2 DEF Conn, ConnStep
<1>3. CASE Open
  <2>1. ~listening
    BY <1>1, <1>3 DEF Open, Session, Fresh
  <2>2. UNCHANGED <<closed, listening, stale, reconnectAttempts>>
    BY <1>3 DEF Open
  <2> QED  BY <2>1, <2>2 DEF Conn, ConnStep
<1>4. CASE ConnectFails \/ SocketClose
  BY <1>1, <1>4, ConnLoss
<1>5. CASE Negotiate
  <2>1. UNCHANGED <<closed, listening, stale, reconnectAttempts>>
    BY <1>5 DEF Negotiate
  <2>2. link' = link \/ (link = "open" /\ link' = "ended")
    BY <1>5 DEF Negotiate, Ended
  <2> QED  BY <1>1, <2>1, <2>2 DEF Conn, ConnStep
<1>6. CASE AnswerReady
  BY <1>1, <1>6, ConnAnswerReady
<1>7. CASE StartupReady
  <2>1. UNCHANGED <<closed, listening, stale, reconnectAttempts>> /\ (closed \/ UNCHANGED link)
    BY <1>7 DEF StartupReady, EndWhenClosed
  <2> QED  BY <2>1 DEF Conn, ConnStep
<1>8. CASE LateReady \/ PostgresError
  <2>1. UNCHANGED <<closed, listening, link, stale, reconnectAttempts>>
    BY <1>8 DEF LateReady, PostgresError, peer
  <2> QED  BY <2>1, ConnKept
<1>9. CASE HealthCheck \/ \E n \in Notifies : Notify(n)
  <2>1. UNCHANGED <<closed, listening, link, stale, reconnectAttempts>>
    BY <1>9 DEF HealthCheck, Notify, Enqueue, peer
  <2> QED  BY <2>1, ConnKept
<1>10. CASE Close
  BY <1>10 DEF Close, Conn, ConnStep
<1>11. CASE SslResponse \/ Admit
  <2>1. UNCHANGED <<closed, listening, link, stale, reconnectAttempts>>
    BY <1>11 DEF SslResponse, Admit, client
  <2> QED  BY <2>1, ConnKept
<1>12. CASE Refuse \/ Break
  <2>1. /\ UNCHANGED <<closed, listening, stale, reconnectAttempts>>
        /\ link' = link \/ (link = "open" /\ link' = "broken")
    BY <1>12 DEF Refuse, Break, client
  <2> QED  BY <1>1, <2>1 DEF Conn, ConnStep
<1>13. CASE Execute
  BY <1>1, <1>13, ConnExecute
<1> QED  BY <1>2, <1>3, <1>4, <1>5, <1>6, <1>7, <1>8, <1>9, <1>10, <1>11, <1>12, <1>13
         DEF Next, Messaging, Peer

\* The listener with channels, behind its wrapper, keeps the promise PgKvCache
\* clears its L1 on.  Without channels there is no LISTEN, and it counts as
\* connected as soon as the server has admitted it.
THEOREM ImplementsContract == ASSUME HasChannels  PROVE LazySpec => KeepsContract
<1>1. LazyInit => Listener!Init
  BY DEF LazyInit, Init, Listener!Init, LazyConn
<1>2. LazyInv /\ LazyInv' /\ [LazyNext]_lazyVars => [Listener!Next]_LazyConn
  <2> SUFFICES ASSUME LazyInv, LazyInv', [LazyNext]_lazyVars
               PROVE  [Listener!Next]_LazyConn
    OBVIOUS
  <2> DEFINE Steps ==
        \/ LazyConn' = LazyConn
        \/ LazyConn \in {"starting", "down"} /\ LazyConn' = "up"
        \/ LazyConn = "up" /\ LazyConn' = "lost"
        \/ LazyConn \in {"starting", "down", "lost"} /\ LazyConn' = "down"
        \/ LazyConn # "off" /\ LazyConn' = "off"
  <2>1. SUFFICES Steps
    BY DEF Listener!Next, Listener!Listening, Listener!Lose, Listener!Reconnect, Listener!Close
  <2>2. Wrapped /\ Wrapped' /\ (handle # "set" => Dormant)
    BY DEF LazyInv
  <2>3. CASE Load
    <3>1. handle = "loading" /\ Dormant /\ UNCHANGED <<closedEarly, deaf>>
          /\ UNCHANGED <<closed, listening, link, stale, reconnectAttempts>>
      BY <2>2, <2>3 DEF Load, peer
    <3>2. CASE closedEarly
      BY <3>1, <3>2 DEF LazyConn
    <3>3. CASE ~closedEarly
      <4>1. handle' = "set" /\ handler' = IF Subscription \in ToSet(queue) THEN "on" ELSE handler
        BY <2>3, <3>3 DEF Load, MayHandle, HandlerCalled
      <4>2. handler = "off" <=> handler' = "off"
        BY <2>2, <4>1 DEF Wrapped
      <4>3. Conn' = "starting"
        BY <3>1 DEF Conn, Dormant
      <4>4. deaf' = FALSE
        BY <2>2 DEF Wrapped
      <4> QED  BY <3>1, <3>3, <4>1, <4>2, <4>3, <4>4 DEF LazyConn
    <3> QED  BY <3>2, <3>3
  <2>4. CASE LoadFails \/ \E n \in Notifies : LazyNotify(n)
    <3>1. handle # "set" /\ handle' # "set" /\ UNCHANGED <<closedEarly, handler>>
      BY <2>4 DEF LoadFails, LazyNotify
    <3> QED  BY <3>1 DEF LazyConn
  <2>5. CASE LazyClose
    BY <2>5 DEF LazyClose, LazyConn
  <2>6. CASE Unsubscribe
    BY <2>6 DEF Unsubscribe, LazyConn
  <2>7. CASE \/ Within(ReconnectTimer) \/ Within(Open) \/ Within(ConnectFails) \/ Within(SocketClose)
             \/ Within(Messaging)
             \/ \E n \in Notifies : Within(Notify(n))
             \/ Within(HealthCheck)
             \/ Within(Close)
             \/ Within(Peer)
    <3>1. handle = "set" /\ Next /\ UNCHANGED wrapper
      BY <2>7, WithinNext
    <3>2. ConnStep
      BY <3>1, ConnSteps DEF LazyInv
    <3>3. ~closedEarly /\ deaf = FALSE /\ deaf' = FALSE
      BY <2>2, <3>1 DEF Wrapped
    <3>4. CASE handler = "off"
      BY <3>1, <3>4 DEF LazyConn, wrapper
    <3>5. CASE handler # "off"
      <4>1. LazyConn = Conn /\ LazyConn' = Conn'
        BY <3>1, <3>3, <3>5 DEF LazyConn, wrapper
      <4> QED  BY <3>2, <4>1 DEF ConnStep
    <3> QED  BY <3>4, <3>5
  <2>8. CASE UNCHANGED lazyVars
    BY <2>8 DEF lazyVars, wrapper, vars, client, peer, LazyConn, Conn
  <2> QED  BY <2>3, <2>4, <2>5, <2>6, <2>7, <2>8 DEF LazyNext
<1> QED  BY <1>1, <1>2, BunInvariant, PTL DEF LazySpec, KeepsContract, Listener!Spec

-----------------------------------------------------------------------------
(* What close() ends.                                                      *)

\* A closed listener stays closed: its timer does not connect, and no answer
\* marks it connected.
LEMMA ClosedSteps ==
    ASSUME closed, Next
    PROVE  closed' /\ (link = "none" => link' = "none") /\ (status = "closed" => status' = "closed")
<1>1. CASE ReconnectTimer \/ Open \/ ConnectFails \/ SocketClose
  BY <1>1 DEF ReconnectTimer, MayConnect, Open, ConnectFails, Retry, SocketClose, client, peer
<1>2. CASE Messaging
  <2>1. CASE Negotiate \/ LateReady \/ PostgresError
    BY <2>1 DEF Negotiate, LateReady, PostgresError, Read, Ended, peer
  <2>2. CASE AnswerReady \/ StartupReady
    BY <2>2 DEF AnswerReady, StartupReady, MarkConnected, Ended, EndWhenClosed, Read
  <2> QED  BY <1>2, <2>1, <2>2 DEF Messaging
<1>3. CASE (\E n \in Notifies : Notify(n)) \/ HealthCheck \/ Close
  BY <1>3 DEF Notify, HealthCheck, Close, peer
<1>4. CASE Peer
  BY <1>4 DEF Peer, SslResponse, Admit, Refuse, Execute, Break, client
<1> QED  BY <1>1, <1>2, <1>3, <1>4 DEF Next

\* After close() nothing connects any more, neither a timer nor an import that
\* was pending, and "closed" is the last status that getHealth() reports.
THEOREM StaysClosed == LazySpec => ClosedForGood
<1> DEFINE Step == AnyClosed => /\ AnyClosed'
                                /\ LazyLink = "none" => LazyLink' = "none"
                                /\ LazyStatus = "closed" => LazyStatus' = "closed"
<1>1. LazyInv /\ [LazyNext]_lazyVars => Step
  <2> SUFFICES ASSUME LazyInv, [LazyNext]_lazyVars, AnyClosed  PROVE Step
    OBVIOUS
  <2>1. Wrapped /\ (handle # "set" => Dormant)
    BY DEF LazyInv
  <2>2. CASE handle # "set"
    <3>1. closedEarly /\ ~closed
      BY <2>1, <2>2 DEF AnyClosed, Dormant
    <3>2. handle' # "set" /\ closedEarly'
      <4>1. CASE Load
        BY <2>2, <3>1, <4>1 DEF Load, MayHandle
      <4>2. CASE LoadFails \/ (\E n \in Notifies : LazyNotify(n)) \/ LazyClose \/ Unsubscribe
        BY <2>2, <3>1, <4>2 DEF LoadFails, LazyNotify, LazyClose, Unsubscribe
      <4>3. CASE UNCHANGED lazyVars
        BY <2>2, <3>1, <4>3 DEF lazyVars, wrapper
      <4> QED  BY <2>2, <4>1, <4>2, <4>3 DEF LazyNext, Within
    <3> QED  BY <2>2, <3>1, <3>2 DEF AnyClosed, LazyLink, LazyStatus
  <2>3. CASE handle = "set"
    <3>1. closed
      BY <2>1, <2>3 DEF AnyClosed, Wrapped
    <3>2. /\ handle' = "set" /\ closed' /\ (link = "none" => link' = "none")
          /\ (status = "closed" => status' = "closed")
      <4>1. CASE Unsubscribe
        BY <2>3, <3>1, <4>1 DEF Unsubscribe, vars, client
      <4>2. CASE UNCHANGED lazyVars
        BY <2>3, <3>1, <4>2 DEF lazyVars, wrapper, vars, client
      <4>3. CASE ~Unsubscribe /\ LazyNext
        <5>1. handle = "set" /\ Next /\ UNCHANGED wrapper
          BY <2>3, <4>3, WithinNext DEF LazyNext, Load, LoadFails, LazyNotify, LazyClose
        <5> QED  BY <3>1, <5>1, ClosedSteps DEF wrapper
      <4> QED  BY <4>1, <4>2, <4>3
    <3> QED  BY <2>3, <3>2 DEF AnyClosed, LazyLink, LazyStatus
  <2> QED  BY <2>2, <2>3
<1>2. LazyInv /\ [LazyNext]_lazyVars => [Step]_lazyVars
  BY <1>1
<1> QED  BY <1>2, BunInvariant, PTL DEF LazySpec, ClosedForGood
=============================================================================
