---------------------------- MODULE OutboxStream ----------------------------
(***************************************************************************)
(* PgOutboxStream (src/packages/pgredis/src/stream.ts): messages appended  *)
(* to a table, which consumers claim for a time, process and acknowledge   *)
(* in the loop of README.md:323-331.                                       *)
(*                                                                         *)
(* A timestamp is the time left until it: Tick lets it pass.  append may   *)
(* be part of a transaction of the application.  claim is one statement,   *)
(* which locks its rows (Pick) before it commits and returns them (Claim). *)
(***************************************************************************)
EXTENDS Integers, FiniteSets

CONSTANTS
    Consumers,
    MaxId,          \* bound: the messages appended; ids count from 1
    Limits,         \* option limit of claim
    Visibility,     \* option visibilityTimeoutMs, at least 1
    Delays,         \* option availableAt, from now
    MaxFaults       \* bound: failures in a behaviour

ASSUME LimitAssumption == Limits \subseteq Nat \ {0} /\ MaxId \in Nat /\ MaxFaults \in Nat
ASSUME TimeAssumption == Visibility \in Nat \ {0} /\ Delays \subseteq Nat

VARIABLES
    row,        \* [Messages -> Rows]
    pc,         \* [Consumers -> idle, picking (claim executes), working]
    batch,      \* [Consumers -> SUBSET Messages]: claimed, and not yet handled
    left,       \* [Consumers -> Nat]: until the claim of the batch expires
    handled,    \* [Consumers -> message it is about to acknowledge, or 0]
    delivered,  \* the messages some consumer has processed
    faults      \* the failures so far

vars == <<row, pc, batch, left, handled, delivered, faults>>

Messages == 1..MaxId
Unlocked == -1      \* locked_until is null
Rows == [state : {"none", "appending", "aborted", "ready", "processed", "trimmed"},
         available : Nat,           \* until available_at
         locked : Nat \cup {Unlocked}]
NoRow == [state |-> "none", available |-> 0, locked |-> Unlocked]

Init ==
    /\ row = [i \in Messages |-> NoRow]
    /\ pc = [c \in Consumers |-> "idle"]
    /\ batch = [c \in Consumers |-> {}]
    /\ left = [c \in Consumers |-> 0]
    /\ handled = [c \in Consumers |-> 0]
    /\ delivered = {}
    /\ faults = 0

-----------------------------------------------------------------------------
(* Producers.                                                              *)

\* append: the sequence gives the next id, whatever becomes of the others.
Append(i, delay) ==
    /\ row[i].state = "none"
    /\ \A j \in Messages : j < i => row[j].state # "none"
    /\ row' = [row EXCEPT ![i] = [state |-> "appending", available |-> delay, locked |-> Unlocked]]
    /\ UNCHANGED <<pc, batch, left, handled, delivered, faults>>

\* The transaction commits, or is rolled back.
Commit(i) ==
    /\ row[i].state = "appending"
    /\ \E state \in {"ready", "aborted"} : row' = [row EXCEPT ![i].state = state]
    /\ UNCHANGED <<pc, batch, left, handled, delivered, faults>>

-----------------------------------------------------------------------------
(* Consumers.                                                              *)

ClaimableAnyway(i) ==       \* a mutant of Claimable: locked_until is ignored
    row[i].state = "ready" /\ row[i].available = 0
ClaimableOnce(i) ==         \* a mutant of Claimable: a claim does not expire
    row[i].state = "ready" /\ row[i].available = 0 /\ row[i].locked = Unlocked
ClaimableProcessed(i) ==    \* a mutant of Claimable: processed_at is ignored
    row[i].state \in {"ready", "processed"} /\ row[i].available = 0 /\ row[i].locked <= 0
Claimable(i) == row[i].state = "ready" /\ row[i].available = 0 /\ row[i].locked <= 0

\* The rows that executing claims have locked.
RowLocked(i) == \E c \in Consumers : pc[c] = "picking" /\ i \in batch[c]

\* The first n of K by id.
First(n, K) == {i \in K : Cardinality({j \in K : j <= i}) <= n}

\* claim takes a snapshot of now and locks the rows it can, without waiting.
Pick(c, n) ==
    /\ pc[c] = "idle"
    /\ LET picked == First(n, {i \in Messages : Claimable(i) /\ ~RowLocked(i)})
       IN  /\ picked # {}
           /\ batch' = [batch EXCEPT ![c] = picked]
    /\ pc' = [pc EXCEPT ![c] = "picking"]
    /\ left' = [left EXCEPT ![c] = Visibility]
    /\ UNCHANGED <<row, handled, delivered, faults>>

\* claim commits and returns.
Locked(c) == [i \in Messages |-> IF i \in batch[c] THEN [row[i] EXCEPT !.locked = left[c]]
                                                   ELSE row[i]]
Claim(c) ==
    /\ pc[c] = "picking"
    /\ pc' = [pc EXCEPT ![c] = "working"]
    /\ row' = Locked(c)
    /\ UNCHANGED <<batch, left, handled, delivered, faults>>

\* The application processes a message of its batch, in the order of the
\* returned rows, which is any; its claim may have expired by now.
Deliver(c, i) ==
    /\ pc[c] = "working" /\ handled[c] = 0
    /\ i \in batch[c]
    /\ delivered' = delivered \cup {i}
    /\ handled' = [handled EXCEPT ![c] = i]
    /\ UNCHANGED <<row, pc, batch, left, faults>>

\* ack marks the message processed, whoever has claimed it by now.
Acknowledged(i) ==
    IF row[i].state = "ready"
    THEN [row EXCEPT ![i].state = "processed", ![i].locked = Unlocked] ELSE row
Ack(c) ==
    LET i == handled[c]
        rest == batch[c] \ {i}
    IN  /\ pc[c] = "working" /\ i # 0
        /\ ~RowLocked(i)
        /\ row' = Acknowledged(i)
        /\ handled' = [handled EXCEPT ![c] = 0]
        /\ batch' = [batch EXCEPT ![c] = rest]
        /\ pc' = IF rest = {} THEN [pc EXCEPT ![c] = "idle"] ELSE pc
        /\ left' = IF rest = {} THEN [left EXCEPT ![c] = 0] ELSE left
        /\ UNCHANGED <<delivered, faults>>

\* The loop ends early: the process dies, processing throws, a statement
\* fails before or after its commit.
Abandon(c) ==
    /\ faults < MaxFaults /\ faults' = faults + 1
    /\ pc[c] # "idle"
    /\ \/ pc[c] = "picking" /\ row' = Locked(c)
       \/ UNCHANGED row
    /\ pc' = [pc EXCEPT ![c] = "idle"]
    /\ batch' = [batch EXCEPT ![c] = {}]
    /\ left' = [left EXCEPT ![c] = 0]
    /\ handled' = [handled EXCEPT ![c] = 0]
    /\ UNCHANGED delivered

-----------------------------------------------------------------------------
(* Retention and time.                                                     *)

TrimmableAnyway(i) == row[i].state \in {"ready", "processed"}    \* a mutant of Trimmable
Trimmable(i) == row[i].state = "processed"

\* trim, with options that select the messages of K.
Trim(K) ==
    /\ K # {} /\ \A i \in K : Trimmable(i)
    /\ row' = [i \in Messages |-> IF i \in K THEN [NoRow EXCEPT !.state = "trimmed"] ELSE row[i]]
    /\ UNCHANGED <<pc, batch, left, handled, delivered, faults>>

PassedBelow(t) == t - 1      \* a mutant of Passed: time passes below zero
Passed(t) == IF t > 0 THEN t - 1 ELSE t
Tick ==
    /\ row' = [i \in Messages |-> [row[i] EXCEPT !.available = Passed(@), !.locked = Passed(@)]]
    /\ left' = [c \in Consumers |-> Passed(left[c])]
    /\ UNCHANGED <<pc, batch, handled, delivered, faults>>

-----------------------------------------------------------------------------
(* The specification.                                                      *)

Work(c) == (\E i \in Messages : Deliver(c, i)) \/ Ack(c)

Next ==
    \/ \E i \in Messages : (\E delay \in Delays : Append(i, delay)) \/ Commit(i)
    \/ \E c \in Consumers : (\E n \in Limits : Pick(c, n)) \/ Claim(c) \/ Work(c) \/ Abandon(c)
    \/ \E K \in SUBSET Messages : Trim(K)
    \/ Tick

Spec == Init /\ [][Next]_vars

\* Transactions end, every consumer claims again and again and handles what
\* it has claimed, and time passes.
Fairness ==
    /\ WF_vars(\E i \in Messages : Commit(i))
    /\ \A c \in Consumers : /\ WF_vars(\E n \in Limits : Pick(c, n))
                            /\ WF_vars(Claim(c))
                            /\ WF_vars(Work(c))
    /\ WF_vars(Tick)

FairSpec == Spec /\ Fairness

-----------------------------------------------------------------------------
(* Properties.                                                             *)

\* Type correctness of the table and of the consumers' loops.
TypeOK ==
    /\ row \in [Messages -> Rows]
    /\ pc \in [Consumers -> {"idle", "picking", "working"}]
    /\ batch \in [Consumers -> SUBSET Messages]
    /\ left \in [Consumers -> 0..Visibility]
    /\ handled \in [Consumers -> Messages \cup {0}]
    /\ delivered \subseteq Messages
    /\ faults \in 0..MaxFaults

\* A claimed message is invisible to the other consumers for the visibility
\* timeout (production-runbook.md:145): no two hold it by claims that have
\* not expired.
Exclusive ==
    \A c, d \in Consumers : c # d /\ left[c] > 0 /\ left[d] > 0 => batch[c] \cap batch[d] = {}

\* A message is processed or trimmed only after some consumer has delivered
\* it, whichever consumers crash, are late or are overtaken (ack, trim).
NotLost == \A i \in Messages : row[i].state \in {"processed", "trimmed"} => i \in delivered

\* What the two rest on.  The loop of a consumer, and what it holds:
LoopOk ==
    \A c \in Consumers :
        /\ pc[c] = "idle" => batch[c] = {} /\ handled[c] = 0
        /\ handled[c] # 0 => handled[c] \in batch[c] \cap delivered
        /\ \A i \in batch[c] : row[i].state \in {"ready", "processed", "trimmed"}
\* a claim that has not expired is in the row, unless the message is done;
ClaimsKept ==
    \A c \in Consumers, i \in Messages :
        pc[c] = "working" /\ left[c] > 0 /\ i \in batch[c] /\ row[i].state = "ready"
            => row[i].locked >= left[c]
\* and a message that an executing claim has picked is with nobody else.
PickedAlone ==
    \A c, d \in Consumers :
        c # d /\ pc[c] = "picking" /\ left[d] > 0 => batch[c] \cap batch[d] = {}

\* The inductive invariant behind exclusive claims and at-least-once delivery
\* (claim, ack and trim).
ClaimInv == Exclusive /\ NotLost /\ LoopOk /\ ClaimsKept /\ PickedAlone

\* Once a message is acknowledged, by however late a consumer, it is never
\* claimed again: nobody gets it who did not hold it (claim, ack).
NeverAgain ==
    [][\A i \in Messages, c \in Consumers :
         row[i].state \in {"processed", "trimmed"} /\ i \notin batch[c] => i \notin batch'[c]]_vars

\* Every message whose append has committed is processed, although consumers
\* crash or outlive their claims: a claim expires, and a late ack counts.
Processed ==
    \A i \in Messages : row[i].state = "ready" ~> row[i].state \in {"processed", "trimmed"}
=============================================================================
