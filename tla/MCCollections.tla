---------------------------- MODULE MCCollections ----------------------------
(* The instance of Collections that TLC checks. *)
EXTENDS Collections

MCKeys == <<"k1", "k2">>
MCTimeouts == {1, Forever}

\* Two keys where a call concerns both.  A blocking pop finds the first empty.
MCKeysOf == [k \in Kinds |-> CASE k = "set" -> {"k1", "k2"}
                               [] k = "list" -> {"k2"}
                               [] OTHER -> {"k1"}]
MCMaxCalls == [k \in Kinds |-> IF k \in {"counter", "sorted"} THEN 4 ELSE 3]

\* Scans of several pages, and of the empty field or member.
MCMembersOf == [k \in Kinds |-> CASE k = "hash" -> {0, 1, 2}
                                  [] k = "set" -> {0, 1}
                                  [] k = "sorted" -> {1, 2}
                                  [] k = "counter" -> {1}
                                  [] k = "list" -> {}]
=============================================================================
