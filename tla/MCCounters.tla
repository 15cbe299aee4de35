----------------------------- MODULE MCCounters -----------------------------
(* Two stats requests at a time; shares of two difficulties.                 *)
EXTENDS Counters, TLC

MCDiffs == {1, 2}
Symmetry == Permutations(Requests)
=============================================================================
