----------------------------- MODULE MCKvCache -----------------------------
(***************************************************************************)
(* The instances of KvCache that TLC checks: two processes "a" and "b",    *)
(* at most two keys, a prefix that matches one of them.                  *)
(***************************************************************************)
EXTENDS KvCache

MCMatching == [p \in {"k"} |-> {"k1"}]

\* How many calls at a time each process makes.
TwoAndOne == [c \in {"a1", "a2", "b1"} |-> IF c = "b1" THEN "b" ELSE "a"]
OneEach == [c \in {"a1", "b1"} |-> IF c = "b1" THEN "b" ELSE "a"]

\* The methods that "a" calls, and those that "b" calls.
ReaderWriter(r, w) == [i \in {"a", "b"} |-> IF i = "a" THEN r ELSE w]

\* Guarded methods against methods that write and publish one key or a
\* prefix, with an expiry or without.  The others do to rows and entries what
\* one of these does.
GuardedAgainstWrites ==
    ReaderWriter({"get", "delete"}, {"set", "expire", "clearPrefix"})
Everything == [i \in {"a", "b"} |-> IF i = "a" THEN OpKinds ELSE {"set"}]

\* The methods of the findings.
SetsAgainstSets == ReaderWriter({"get", "set"}, {"set"})
GetsAgainstSets == ReaderWriter({"get"}, {"set"})
=============================================================================
