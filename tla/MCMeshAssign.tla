---------------------------- MODULE MCMeshAssign ----------------------------
(* Instance values for MeshAssign.                                           *)
EXTENDS MeshAssign, TLC

CONSTANTS w1, w2, A, B

OneRoams == {w1}
AllWorkers == {w1, w2}
TwoCoins == {A, B}
PinsAndSplit == {{A}, {B}, {A, B}}
PinAndSplit == {{A}, {A, B}}
Rates == w1 :> 2 @@ w2 :> 3
Difficulties == A :> 2 @@ B :> 1
Splits == {A :> 50 @@ B :> 50, A :> 80 @@ B :> 20}
=============================================================================
