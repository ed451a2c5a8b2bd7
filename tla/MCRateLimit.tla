---------------------------- MODULE MCRateLimit ----------------------------
(* The instances of RateLimit that TLC checks. *)
EXTENDS RateLimit, TLC

MCBlocks == {[blockMs |-> 1, count |-> 3], [blockMs |-> 3, count |-> 3], [blockMs |-> 2, count |-> 1]}
Symmetry == Permutations(Callers)
=============================================================================
