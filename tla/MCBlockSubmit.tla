--------------------------- MODULE MCBlockSubmit ---------------------------
(* Two solutions, each by V1 or SV2, two blocks of others and two syncs.         *)
EXTENDS BlockSubmit

CONSTANTS first, second

MCSolutions == {first, second}
Alike == Permutations(MCSolutions)
=============================================================================
