---------------------------- MODULE MCCubeConquer ----------------------------
(* Small instances of CubeConquer for TLC. *)
EXTENDS CubeConquer

CONSTANTS a, b

(* Problems with one and with two solutions. *)
CostOne   == (a :> 3)
CostTwo   == (a :> 3 @@ b :> 4)

(* The branches of one cube worker (rank 2), of two (ranks 2 and 3). *)
ShareA      == (2 :> {a})
ShareAB     == (2 :> {a, b})
ShareANone  == (2 :> {a} @@ 3 :> {})
ShareABNone == (2 :> {a, b} @@ 3 :> {})
ShareAandB  == (2 :> {a} @@ 3 :> {b})
=============================================================================
