--------------------------- MODULE MCTransactions ---------------------------
(***************************************************************************)
(* The instance of Transactions that TLC checks: two calls that may be     *)
(* sections under one lock, which one of them waits for and the other only *)
(* tries to get, or execs; and a query in the callback of each, for which  *)
(* two callbacks at a time leave no connection.                            *)
(***************************************************************************)
EXTENDS Transactions

MCJobsOf == [c \in {"a", "b", "q", "r"} |->
    CASE c = "a" -> {"lock", "exec"}
      [] c = "b" -> {"try", "exec"}
      [] c \in {"q", "r"} -> {"query"}]
MCLockOf == [c \in {"a", "b", "q", "r"} |-> "k"]
MCParent == [c \in {"a", "b", "q", "r"} |->
    CASE c \in {"a", "b"} -> "nobody"
      [] c = "q" -> "a"
      [] c = "r" -> "b"]
=============================================================================
