----------------------------- MODULE AtomicCalls -----------------------------
(***************************************************************************)
(* What begin(), withPgAdvisoryLock and a pipeline promise together: a     *)
(* section under a lock counts one more than the section before it, the    *)
(* commands of an exec become visible all at once, in order and once, and  *)
(* a caller that is told of success has succeeded.                         *)
(***************************************************************************)
EXTENDS Naturals, Sequences, SequencesExt

CONSTANTS
    Callers,    \* the calls that run a transaction
    Locks,
    LockOf,     \* [Callers -> Locks]: the lock a call asks for, if it does
    Nobody,
    Commands    \* the commands added to the pipeline, numbered

VARIABLES
    operations, \* the commands of the pipeline
    batch,      \* [Callers -> Seq(Commands)]: those that an exec has taken
    holder,     \* [Locks -> Callers \cup {Nobody}]
    counted,    \* [Locks -> Nat]: the sections committed under a lock
    table,      \* the commands whose effects are visible, in their order
    committed,  \* the calls whose transaction is committed
    told        \* [Callers -> {"none", "ok", "failed"}]

vars == <<operations, batch, holder, counted, table, committed, told>>

Init ==
    /\ operations = <<>> /\ batch = [c \in Callers |-> <<>>]
    /\ holder = [k \in Locks |-> Nobody] /\ counted = [k \in Locks |-> 0]
    /\ table = <<>> /\ committed = {}
    /\ told = [c \in Callers |-> "none"]

Known == ToSet(operations) \cup ToSet(table) \cup UNION {ToSet(batch[c]) : c \in Callers}

Add ==
    /\ \E n \in Commands \ Known : operations' = Append(operations, n)
    /\ UNCHANGED <<batch, holder, counted, table, committed, told>>

\* exec takes every command, and nobody else will; it may fail at once.
Take(c) ==
    /\ told[c] = "none" /\ batch[c] = <<>>
    /\ batch' = [batch EXCEPT ![c] = operations] /\ operations' = <<>>
    /\ told' \in {told, [told EXCEPT ![c] = "failed"]}
    /\ UNCHANGED <<holder, counted, table, committed>>

Enter(c) ==
    /\ c \notin committed /\ told[c] = "none"
    /\ holder[LockOf[c]] = Nobody
    /\ holder' = [holder EXCEPT ![LockOf[c]] = c]
    /\ UNCHANGED <<operations, batch, counted, table, committed, told>>

\* A section ends with its count, or without a trace.
Count(c) ==
    /\ holder[LockOf[c]] = c
    /\ holder' = [holder EXCEPT ![LockOf[c]] = Nobody]
    /\ \/ /\ counted' = [counted EXCEPT ![LockOf[c]] = @ + 1]
          /\ committed' = committed \cup {c}
          /\ UNCHANGED told
       \/ /\ told' \in {told, [told EXCEPT ![c] = "failed"]}
          /\ UNCHANGED <<counted, committed>>
    /\ UNCHANGED <<operations, batch, table>>

\* The commands of an exec.
Publish(c) ==
    /\ c \notin committed /\ told[c] = "none"
    /\ \A k \in Locks : holder[k] # c
    /\ table' = table \o batch[c]
    /\ committed' = committed \cup {c}
    /\ UNCHANGED <<operations, batch, holder, counted, told>>

Tell(c) ==
    /\ told[c] = "none" /\ \A k \in Locks : holder[k] # c
    /\ \E result \in {"failed"} \cup (IF c \in committed THEN {"ok"} ELSE {}) :
           told' = [told EXCEPT ![c] = result]
    /\ UNCHANGED <<operations, batch, holder, counted, table, committed>>

Next == \/ Add
        \/ \E c \in Callers : Take(c) \/ Enter(c) \/ Count(c) \/ Publish(c) \/ Tell(c)

Spec == Init /\ [][Next]_vars
=============================================================================
