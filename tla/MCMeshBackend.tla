---------------------------- MODULE MCMeshBackend ----------------------------
(* MeshBackend needs no instance values but its bounds.                      *)
EXTENDS MeshBackend
=============================================================================
