---------------------------- MODULE NodeListener ----------------------------
(***************************************************************************)
(* createPgNodeListener (src/packages/pgredis/src/adapters/node.ts): the   *)
(* listener on a client of the pg library.  An action is one callback: an  *)
(* event of the client, the settlement of a promise, a timer, or close().  *)
(*                                                                         *)
(* The client is modelled from what the code uses of it: connect() and     *)
(* query() settle, a lost connection emits "error" and later "end", and    *)
(* end() leads to "end" alone.  The module pg is found; its import takes   *)
(* time once, and none from then on.                                       *)
(***************************************************************************)
EXTENDS Naturals

CONSTANTS
    Faults,         \* the kinds of failure that happen
    MaxFaults       \* bound: failures in a behaviour

FaultKinds == {"connect", "break", "listen", "health"}

ASSUME FaultAssumption == Faults \subseteq FaultKinds /\ MaxFaults \in Nat

VARIABLES
    status, closed, reconnectAttempts,
    reconnectTimer, healthTimer,    \* is it set?
    connecting,     \* the promise is pending
    loading,        \* the first connect() awaits the import of pg
    client,         \* the client held, by its connection, see Clients
    former,         \* clients not held any more with an event to come
    listening,      \* LISTEN is in effect on the connection held
    stale,          \* a LISTEN ended without a "reconnect" event since
    faults          \* the failures so far

listener == <<status, closed, reconnectAttempts, reconnectTimer, healthTimer, connecting>>
vars == <<listener, loading, client, former, listening, stale, faults>>

\* none: null; dialing: its connect() is pending; login: LISTEN is; refused:
\* LISTEN failed; open: connected; broken: "error" and "end" are to come;
\* ending: "end" is.
Clients == {"none", "dialing", "login", "refused", "open", "broken", "ending", "ended"}

Init ==
    /\ status = "connecting" /\ closed = FALSE /\ reconnectAttempts = 0
    /\ reconnectTimer = FALSE /\ healthTimer = FALSE
    /\ connecting = FALSE /\ loading = TRUE
    /\ client = "none" /\ former = 0 /\ listening = FALSE
    /\ stale = FALSE /\ faults = 0

Fault(kind) ==
    /\ kind \in Faults /\ faults < MaxFaults
    /\ faults' = faults + 1

-----------------------------------------------------------------------------
(* Connecting.                                                             *)

EmitNothing == UNCHANGED stale      \* a mutant of EmitReconnect: the event is forgotten
EmitReconnect == stale' = FALSE

\* n calls of scheduleReconnect in one callback.
ScheduleReconnect(n) ==
    IF closed THEN UNCHANGED <<status, reconnectAttempts, reconnectTimer, healthTimer, stale>>
    ELSE /\ status' = "reconnecting"
         /\ reconnectAttempts' = reconnectAttempts + n
         /\ reconnectTimer' = TRUE /\ healthTimer' = FALSE
         /\ EmitReconnect

\* The rest of connect() once pg is there, which does not look at closed.
StartClient ==
    /\ client' = "dialing" /\ connecting' = TRUE
    /\ former' = IF client \in {"none", "ended"} THEN former ELSE former + 1
    /\ listening' = FALSE /\ stale' = (stale \/ listening)

PgLoaded ==
    /\ loading /\ loading' = FALSE
    /\ StartClient
    /\ UNCHANGED <<status, closed, reconnectAttempts, reconnectTimer, healthTimer, faults>>

AttemptCounted == reconnectAttempts' = reconnectAttempts + 1    \* a mutant of Attempt: counted twice
Attempt == UNCHANGED reconnectAttempts
ReconnectTimer ==
    /\ reconnectTimer /\ reconnectTimer' = FALSE
    /\ Attempt
    /\ IF connecting
       THEN UNCHANGED <<status, connecting, client, former, listening, stale>>
       ELSE /\ status' = IF reconnectAttempts > 0 THEN "reconnecting" ELSE "connecting"
            /\ StartClient
    /\ UNCHANGED <<closed, healthTimer, loading, faults>>

\* connect() of the client resolves, and LISTEN is sent.
LoggedIn ==
    /\ client = "dialing" /\ client' = "login"
    /\ UNCHANGED <<listener, loading, former, listening, stale, faults>>

\* The server executes LISTEN, for the last of the channels.
ExecuteListen ==
    /\ client = "login" /\ ~listening
    /\ listening' = TRUE
    /\ UNCHANGED <<listener, loading, client, former, stale, faults>>

ListenSent == client = "login"      \* a mutant of Listened: the query is not awaited
Listened == client = "login" /\ listening
Connected ==
    /\ Listened
    /\ client' = "open" /\ connecting' = FALSE
    /\ status' = "connected" /\ reconnectAttempts' = 0
    /\ healthTimer' = TRUE
    /\ UNCHANGED <<closed, reconnectTimer, loading, former, listening, stale, faults>>

\* .catch and .finally of connecting, after n schedulings by event handlers.
SettledQuietly(n) ==        \* a mutant of Settled: the event handlers will see to it
    /\ connecting' = FALSE
    /\ IF n > 0 THEN ScheduleReconnect(n)
       ELSE UNCHANGED <<status, reconnectAttempts, reconnectTimer, healthTimer, stale>>
Settled(n) == ScheduleReconnect(n + 1) /\ connecting' = FALSE

\* connect() of the client rejects; its "end" is to come.
ConnectFails ==
    /\ Fault("connect")
    /\ client = "dialing" /\ client' = "ending"
    /\ Settled(0)
    /\ UNCHANGED <<closed, loading, former, listening>>

\* A LISTEN is refused.  Nobody ends the client.
ListenFails ==
    /\ Fault("listen")
    /\ client = "login" /\ ~listening
    /\ client' = "refused"
    /\ Settled(0)
    /\ UNCHANGED <<closed, loading, former, listening>>

-----------------------------------------------------------------------------
(* Losing a connection.                                                    *)

Break ==
    /\ Fault("break")
    /\ client \in {"login", "refused", "open"} /\ client' = "broken"
    /\ listening' = FALSE /\ stale' = (stale \/ listening)
    /\ UNCHANGED <<listener, loading, former>>

\* "error" of the client held; a pending LISTEN rejects with it.
ClientError ==
    /\ client = "broken" /\ client' = "ending"
    /\ IF connecting THEN Settled(1) ELSE ScheduleReconnect(1) /\ UNCHANGED connecting
    /\ UNCHANGED <<closed, loading, former, listening, faults>>

\* "end" of the client held.
ClientEnd ==
    /\ client = "ending" /\ client' = "ended"
    /\ ScheduleReconnect(1)
    /\ UNCHANGED <<closed, connecting, loading, former, listening, faults>>

\* An event of another client: the handlers compare it with the one held.
ForAny == ScheduleReconnect(1)      \* a mutant of ForHeld: they do not
ForHeld == UNCHANGED <<status, reconnectAttempts, reconnectTimer, healthTimer, stale>>
FormerEvent ==
    /\ former > 0 /\ former' = former - 1
    /\ ForHeld
    /\ UNCHANGED <<closed, connecting, loading, client, listening, faults>>

\* The query of the health check fails, and the client is ended.
HealthFails ==
    /\ Fault("health")
    /\ healthTimer /\ ~closed /\ status = "connected" /\ client = "open"
    /\ client' = "ending"
    /\ listening' = FALSE /\ stale' = (stale \/ listening)
    /\ UNCHANGED <<listener, loading, former>>

\* close() ends the client held: a LISTEN rejects, which is only reported,
\* and connect() of the client never settles.
Close ==
    /\ ~closed /\ closed' = TRUE
    /\ reconnectTimer' = FALSE /\ healthTimer' = FALSE
    /\ status' = "closed"
    /\ connecting' = (connecting /\ client = "dialing")
    /\ client' = "none"
    /\ former' = IF client \in {"none", "ended"} THEN former ELSE former + 1
    /\ listening' = FALSE /\ stale' = (stale \/ listening)
    /\ UNCHANGED <<reconnectAttempts, loading, faults>>

-----------------------------------------------------------------------------
(* The specification.                                                      *)

Next ==
    \/ PgLoaded \/ ReconnectTimer \/ LoggedIn \/ ExecuteListen \/ Connected
    \/ ConnectFails \/ ListenFails
    \/ Break \/ ClientError \/ ClientEnd \/ FormerEvent \/ HealthFails
    \/ Close

Spec == Init /\ [][Next]_vars

\* The import of pg ends, the timer fires, the event loop delivers what
\* arrives, and a server that can be reached answers.
Fairness == /\ WF_vars(PgLoaded) /\ WF_vars(ReconnectTimer)
            /\ WF_vars(LoggedIn) /\ WF_vars(ExecuteListen) /\ WF_vars(Connected)
            /\ WF_vars(ClientError) /\ WF_vars(ClientEnd)

FairSpec == Spec /\ Fairness

-----------------------------------------------------------------------------
(* Properties.                                                             *)

\* Type correctness; a loss is counted three times at most.
TypeOK ==
    /\ status \in {"connecting", "connected", "reconnecting", "closed"}
    /\ {closed, reconnectTimer, healthTimer, connecting, loading, listening, stale} \subseteq BOOLEAN
    /\ faults \in 0..MaxFaults /\ reconnectAttempts \in 0..(3 * faults)
    /\ client \in Clients
    /\ former \in 0..(faults + 1)

\* Until close(), something will always connect the listener, and the timer
\* that would replace the client held is never set while that one connects
\* or is connected (scheduleReconnect and the guards of its callers).
OneConnection ==
    ~closed => /\ reconnectTimer \/ loading
                  \/ client \in {"dialing", "login", "open", "broken", "ending"}
               /\ reconnectTimer => client \notin {"dialing", "login", "open"}

\* What PgKvCache sees of the listener.
Conn == IF closed THEN "off"
        ELSE IF listening THEN "up"
        ELSE IF stale THEN "lost"
        ELSE IF reconnectAttempts = 0 THEN "starting" ELSE "down"

\* "connected" is reported only after LISTEN has been executed on the
\* connection held, and until its loss is noticed (connect, getHealth).
ConnectedListens == status = "connected" /\ ~closed => Conn \in {"up", "lost"}

\* The promise PgKvCache clears its L1 on: "reconnect" is emitted between
\* the loss of a LISTEN and the next one.
Listener == INSTANCE PgListener WITH conn <- Conn
KeepsContract == Listener!Spec

\* When the failures stop, the listener is connected again, or was closed.
Reconnects == <>[](closed \/ status = "connected")
=============================================================================
