------------------------- MODULE NodeListenerProofs -------------------------
(***************************************************************************)
(* What the Node listener guarantees after any number of failures, proved  *)
(* from one inductive invariant, and that it implements PgListener.        *)
(***************************************************************************)
EXTENDS NodeListener, TLAPS

(***************************************************************************)
(* Which of the flags can be set beside each state of the client held.     *)
(* Once close() was called nothing is scheduled any more; only an import   *)
(* of pg that is still pending goes on to connect.                         *)
(***************************************************************************)
Imports ==
    loading => /\ client = "none" /\ ~connecting /\ ~reconnectTimer /\ former = 0
               /\ ~listening /\ ~stale /\ status # "connected" /\ reconnectAttempts = 0

Connects ==
    /\ client \in {"dialing", "login"} => connecting
    /\ client \in {"refused", "open", "ending", "ended"} => ~connecting
    /\ client = "none" => closed \/ loading
    /\ client \in {"refused", "ended"} => closed \/ reconnectTimer

Listens ==
    /\ client = "open" => listening
    /\ listening => client \in {"login", "open"}
    /\ status = "connected" /\ ~closed => client \in {"open", "broken", "ending"} /\ (listening \/ stale)
    /\ stale /\ ~closed => client \in {"broken", "ending"}

Timers ==
    /\ closed => ~reconnectTimer
    /\ reconnectTimer => /\ client \in {"refused", "broken", "ending", "ended"}
                         /\ ~connecting /\ ~stale

\* What the events to come of the client held will still add to the attempts.
ToCount == IF client = "broken" THEN IF connecting THEN 3 ELSE 2
           ELSE IF client = "ending" THEN 1 ELSE 0

\* A client was replaced, or is to be, only after a failure of its own.
Counts ==
    /\ reconnectAttempts + ToCount <= 3 * faults
    /\ former <= faults + 1
    /\ client \in {"dialing", "login", "open"} => former <= faults
    /\ client \in {"refused", "broken", "ending", "ended"} => former + 1 <= faults

Flags ==
    /\ closed \in BOOLEAN /\ reconnectTimer \in BOOLEAN /\ healthTimer \in BOOLEAN
    /\ connecting \in BOOLEAN /\ loading \in BOOLEAN /\ listening \in BOOLEAN /\ stale \in BOOLEAN
Values ==
    /\ status \in {"connecting", "connected", "reconnecting", "closed"} /\ client \in Clients
    /\ faults \in 0..MaxFaults /\ reconnectAttempts \in Nat /\ former \in Nat

ListenerInv == Flags /\ Values /\ Imports /\ Connects /\ Listens /\ Timers /\ Counts

\* Whatever fails and in whatever order, the listener's flags fit the client it
\* holds (connect, scheduleReconnect and the handlers of a client's events).
THEOREM ListenerInvariant == Spec => []ListenerInv
<1>1. Init => ListenerInv
  <2> SUFFICES ASSUME Init  PROVE ListenerInv
    OBVIOUS
  <2>1. Flags
    BY DEF Init, Flags
  <2>2. Values /\ Counts
    BY FaultAssumption DEF Init, Values, Clients, Counts, ToCount
  <2>3. Imports /\ Connects /\ Listens /\ Timers
    BY DEF Init, Imports, Connects, Listens, Timers
  <2> QED  BY <2>1, <2>2, <2>3 DEF ListenerInv
<1>2. ListenerInv /\ [Next]_vars => ListenerInv'
  <2> SUFFICES ASSUME ListenerInv, [Next]_vars  PROVE ListenerInv'
    OBVIOUS
  <2> USE DEF ListenerInv
  <2>1. CASE PgLoaded
    <3> USE <2>1 DEF PgLoaded, StartClient
    <3>1. Flags'
      BY DEF Flags
    <3>2. Values' /\ Counts'
      BY FaultAssumption DEF Values, Clients, Imports, Connects, Timers, Counts, ToCount
    <3>3. Imports' /\ Connects' /\ Listens' /\ Timers'
      BY DEF Values, Clients, Imports, Connects, Listens, Timers
    <3> QED  BY <3>1, <3>2, <3>3
  <2>2. CASE ReconnectTimer
    <3> USE <2>2 DEF ReconnectTimer, Attempt, StartClient
    <3>1. Flags'
      BY DEF Flags
    <3>2. Values' /\ Counts'
      BY FaultAssumption DEF Values, Clients, Imports, Connects, Timers, Counts, ToCount
    <3>3. Imports' /\ Connects' /\ Listens' /\ Timers'
      BY DEF Values, Clients, Imports, Connects, Listens, Timers
    <3> QED  BY <3>1, <3>2, <3>3
  <2>3. CASE LoggedIn
    <3> USE <2>3 DEF LoggedIn, listener
    <3>1. Flags'
      BY DEF Flags
    <3>2. Values' /\ Counts'
      BY FaultAssumption DEF Values, Clients, Imports, Connects, Timers, Counts, ToCount
    <3>3. Imports' /\ Connects' /\ Listens' /\ Timers'
      BY DEF Values, Clients, Imports, Connects, Listens, Timers
    <3> QED  BY <3>1, <3>2, <3>3
  <2>4. CASE ExecuteListen
    <3> USE <2>4 DEF ExecuteListen, listener
    <3>1. Flags'
      BY DEF Flags
    <3>2. Values' /\ Counts'
      BY FaultAssumption DEF Values, Clients, Imports, Connects, Timers, Counts, ToCount
    <3>3. Imports' /\ Connects' /\ Listens' /\ Timers'
      BY DEF Values, Clients, Imports, Connects, Listens, Timers
    <3> QED  BY <3>1, <3>2, <3>3
  <2>5. CASE Connected
    <3> USE <2>5 DEF Connected, Listened
    <3>1. Flags'
      BY DEF Flags
    <3>2. Values' /\ Counts'
      BY FaultAssumption DEF Values, Clients, Imports, Connects, Timers, Counts, ToCount
    <3>3. Imports' /\ Connects' /\ Listens' /\ Timers'
      BY DEF Values, Clients, Imports, Connects, Listens, Timers
    <3> QED  BY <3>1, <3>2, <3>3
  <2>6. CASE ConnectFails
    <3> USE <2>6 DEF ConnectFails, Fault, Settled, ScheduleReconnect, EmitReconnect
    <3>1. Flags'
      BY DEF Flags
    <3>2. Values' /\ Counts'
      BY FaultAssumption DEF Values, Clients, Imports, Connects, Timers, Counts, ToCount
    <3>3. Imports' /\ Connects' /\ Listens' /\ Timers'
      BY DEF Values, Clients, Imports, Connects, Listens, Timers
    <3> QED  BY <3>1, <3>2, <3>3
  <2>7. CASE ListenFails
    <3> USE <2>7 DEF ListenFails, Fault, Settled, ScheduleReconnect, EmitReconnect
    <3>1. Flags'
      BY DEF Flags
    <3>2. Values' /\ Counts'
      BY FaultAssumption DEF Values, Clients, Imports, Connects, Timers, Counts, ToCount
    <3>3. Imports' /\ Connects' /\ Listens' /\ Timers'
      BY DEF Values, Clients, Imports, Connects, Listens, Timers
    <3> QED  BY <3>1, <3>2, <3>3
  <2>8. CASE Break
    <3> USE <2>8 DEF Break, Fault, listener
    <3>1. Flags'
      BY DEF Flags
    <3>2. Values' /\ Counts'
      BY FaultAssumption DEF Values, Clients, Imports, Connects, Timers, Counts, ToCount
    <3>3. Imports' /\ Connects' /\ Listens' /\ Timers'
      BY DEF Values, Clients, Imports, Connects, Listens, Timers
    <3> QED  BY <3>1, <3>2, <3>3
  <2>9. CASE ClientError
    <3> USE <2>9 DEF ClientError, Settled, ScheduleReconnect, EmitReconnect
    <3>1. Flags'
      BY DEF Flags
    <3>2. Values' /\ Counts'
      BY FaultAssumption DEF Values, Clients, Imports, Connects, Timers, Counts, ToCount
    <3>3. Imports' /\ Connects' /\ Listens' /\ Timers'
      BY DEF Values, Clients, Imports, Connects, Listens, Timers
    <3> QED  BY <3>1, <3>2, <3>3
  <2>10. CASE ClientEnd
    <3> USE <2>10 DEF ClientEnd, ScheduleReconnect, EmitReconnect
    <3>1. Flags'
      BY DEF Flags
    <3>2. Values' /\ Counts'
      BY FaultAssumption DEF Values, Clients, Imports, Connects, Timers, Counts, ToCount
    <3>3. Imports' /\ Connects' /\ Listens' /\ Timers'
      BY DEF Values, Clients, Imports, Connects, Listens, Timers
    <3> QED  BY <3>1, <3>2, <3>3
  <2>11. CASE FormerEvent
    <3> USE <2>11 DEF FormerEvent, ForHeld
    <3>1. Flags'
      BY DEF Flags
    <3>2. Values' /\ Counts'
      BY FaultAssumption DEF Values, Clients, Imports, Connects, Timers, Counts, ToCount
    <3>3. Imports' /\ Connects' /\ Listens' /\ Timers'
      BY DEF Values, Clients, Imports, Connects, Listens, Timers
    <3> QED  BY <3>1, <3>2, <3>3
  <2>12. CASE HealthFails
    <3> USE <2>12 DEF HealthFails, Fault, listener
    <3>1. Flags'
      BY DEF Flags
    <3>2. Values' /\ Counts'
      BY FaultAssumption DEF Values, Clients, Imports, Connects, Timers, Counts, ToCount
    <3>3. Imports' /\ Connects' /\ Listens' /\ Timers'
      BY DEF Values, Clients, Imports, Connects, Listens, Timers
    <3> QED  BY <3>1, <3>2, <3>3
  <2>13. CASE Close
    <3> USE <2>13 DEF Close
    <3>1. Flags'
      BY DEF Flags
    <3>2. Values' /\ Counts'
      BY FaultAssumption DEF Values, Clients, Imports, Connects, Timers, Counts, ToCount
    <3>3. Imports' /\ Connects' /\ Listens' /\ Timers'
      BY DEF Values, Clients, Imports, Connects, Listens, Timers
    <3> QED  BY <3>1, <3>2, <3>3
  <2>14. CASE UNCHANGED vars
    <3> USE <2>14 DEF vars, listener
    <3>1. Flags'
      BY DEF Flags
    <3>2. Values' /\ Counts'
      BY FaultAssumption DEF Values, Clients, Imports, Connects, Timers, Counts, ToCount
    <3>3. Imports' /\ Connects' /\ Listens' /\ Timers'
      BY DEF Values, Clients, Imports, Connects, Listens, Timers
    <3> QED  BY <3>1, <3>2, <3>3
  <2> QED  BY <2>1, <2>2, <2>3, <2>4, <2>5, <2>6, <2>7, <2>8, <2>9, <2>10, <2>11, <2>12, <2>13, <2>14 DEF Next
<1> QED  BY <1>1, <1>2, PTL DEF Spec

\* Every reachable state is well typed, however many failures there are; each
\* adds three attempts at most, the reports of one loss.
THEOREM TypeCorrect == Spec => []TypeOK
<1>1. ListenerInv => TypeOK
  BY FaultAssumption DEF ListenerInv, Flags, Values, Clients, Counts, ToCount, TypeOK
<1> QED  BY <1>1, ListenerInvariant, PTL

\* Until close() something always connects the listener, and no timer replaces
\* a client that connects or is connected (scheduleReconnect).
THEOREM AlwaysConnecting == Spec => []OneConnection
<1>1. ListenerInv => OneConnection
  BY DEF ListenerInv, Values, Clients, Connects, Timers, OneConnection
<1> QED  BY <1>1, ListenerInvariant, PTL

\* "connected" is reported only once LISTEN is in effect, and until its loss is
\* noticed (getHealth).
THEOREM ConnectedMeansListening == Spec => []ConnectedListens
<1>1. ListenerInv => ConnectedListens
  BY DEF ListenerInv, Listens, Conn, ConnectedListens
<1> QED  BY <1>1, ListenerInvariant, PTL

\* The listener implements PgListener: each of its steps is one of the contract
\* or leaves what PgKvCache sees of it as it was.
THEOREM ImplementsContract == Spec => KeepsContract
<1>1. Init => Listener!Init
  BY DEF Init, Listener!Init, Conn
<1>2. ListenerInv /\ [Next]_vars => [Listener!Next]_Conn
  <2> SUFFICES ASSUME ListenerInv, [Next]_vars  PROVE [Listener!Next]_Conn
    OBVIOUS
  <2> USE DEF ListenerInv, Values, Imports, Listens, Timers, Conn
  <2>1. CASE PgLoaded
    BY <2>1 DEF PgLoaded, StartClient
  <2>2. CASE ReconnectTimer
    BY <2>2 DEF ReconnectTimer, Attempt, StartClient
  <2>3. CASE LoggedIn
    BY <2>3 DEF LoggedIn, listener
  <2>4. CASE ExecuteListen
    <3>1. Listener!Listening \/ UNCHANGED Conn
      BY <2>4 DEF ExecuteListen, listener, Listener!Listening
    <3> QED  BY <3>1 DEF Listener!Next
  <2>5. CASE Connected
    BY <2>5 DEF Connected, Listened
  <2>6. CASE ConnectFails
    <3>1. Listener!Reconnect \/ UNCHANGED Conn
      BY <2>6 DEF ConnectFails, Fault, Settled, ScheduleReconnect, EmitReconnect, Listener!Reconnect
    <3> QED  BY <3>1 DEF Listener!Next
  <2>7. CASE ListenFails
    <3>1. Listener!Reconnect \/ UNCHANGED Conn
      BY <2>7 DEF ListenFails, Fault, Settled, ScheduleReconnect, EmitReconnect, Listener!Reconnect
    <3> QED  BY <3>1 DEF Listener!Next
  <2>8. CASE Break
    <3>1. Listener!Lose \/ UNCHANGED Conn
      BY <2>8 DEF Break, Fault, listener, Listener!Lose
    <3> QED  BY <3>1 DEF Listener!Next
  <2>9. CASE ClientError
    <3>1. Listener!Reconnect \/ UNCHANGED Conn
      BY <2>9 DEF ClientError, Settled, ScheduleReconnect, EmitReconnect, Listener!Reconnect
    <3> QED  BY <3>1 DEF Listener!Next
  <2>10. CASE ClientEnd
    <3>1. Listener!Reconnect \/ UNCHANGED Conn
      BY <2>10 DEF ClientEnd, ScheduleReconnect, EmitReconnect, Listener!Reconnect
    <3> QED  BY <3>1 DEF Listener!Next
  <2>11. CASE FormerEvent
    BY <2>11 DEF FormerEvent, ForHeld
  <2>12. CASE HealthFails
    <3>1. Listener!Lose \/ UNCHANGED Conn
      BY <2>12 DEF HealthFails, Fault, listener, Listener!Lose
    <3> QED  BY <3>1 DEF Listener!Next
  <2>13. CASE Close
    <3>1. Listener!Close \/ UNCHANGED Conn
      BY <2>13 DEF Close, Listener!Close
    <3> QED  BY <3>1 DEF Listener!Next
  <2>14. CASE UNCHANGED vars
    BY <2>14 DEF vars, listener
  <2> QED  BY <2>1, <2>2, <2>3, <2>4, <2>5, <2>6, <2>7, <2>8, <2>9, <2>10, <2>11, <2>12, <2>13, <2>14 DEF Next
<1> QED  BY <1>1, <1>2, ListenerInvariant, PTL DEF Spec, KeepsContract, Listener!Spec
=============================================================================
