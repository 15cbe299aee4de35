----------------------------- MODULE MCMeshRelay -----------------------------
(* Two coins, the first of higher priority. *)
EXTENDS MeshRelay
CONSTANTS A, B
MCCoins == <<A, B>>

\* A worker without a choice is pinned to the second coin.
PinMoves == [a \in Assignments |-> IF a = NoCoin THEN {<<B, FALSE>>} ELSE {}]

\* Any worker to any coin or split, and none to any.
AnyMoves == [a \in Assignments |-> {A, B} \X BOOLEAN]
NoMoves  == [a \in Assignments |-> {}]
=============================================================================
