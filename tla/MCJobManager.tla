---------------------------- MODULE MCJobManager ----------------------------
(* Small instance of JobManager for TLC. *)
EXTENDS JobManager, TLC

CONSTANTS t1, t2, a1, a2, s1, s2

MCTips == {t1, t2}
MCAddrs == {a1, a2}
MCSessions == {s1, s2}
MCSymmetry == Permutations(MCSessions) \cup Permutations(MCTips)
=============================================================================
