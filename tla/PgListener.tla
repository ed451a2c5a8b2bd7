------------------------------ MODULE PgListener ------------------------------
(***************************************************************************)
(* What PgKvCache relies on in a listener (PgListenerHandle), whichever    *)
(* adapter implements it: a connection on which LISTEN is in effect may be *)
(* lost unnoticed, and LISTEN is never in effect again before the listener *)
(* has emitted "reconnect", which every entry to "down" stands for.        *)
(***************************************************************************)

VARIABLE conn   \* off, starting, down, up (LISTEN in effect) or lost

Init == conn = "starting"

\* LISTEN takes effect.
Listening == conn \in {"starting", "down"} /\ conn' = "up"

\* The connection breaks, and the listener has not noticed.
Lose == conn = "up" /\ conn' = "lost"

\* The listener emits "reconnect": a loss or a failed attempt.
Reconnect == conn \in {"starting", "down", "lost"} /\ conn' = "down"

\* close().
Close == conn # "off" /\ conn' = "off"

Next == Listening \/ Lose \/ Reconnect \/ Close

Spec == Init /\ [][Next]_conn
=============================================================================
