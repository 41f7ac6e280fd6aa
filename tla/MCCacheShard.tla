---------------------------- MODULE MCCacheShard ----------------------------
(***************************************************************************)
(* A small shard for TLC: four keys, two to a column of the sketch.        *)
(***************************************************************************)
EXTENDS CacheShard, TLC

CONSTANTS k1, k2, k3, k4, v1, v2

MCHash == k1 :> 0 @@ k2 :> 2 @@ k3 :> 1 @@ k4 :> 3

ValueSymmetry == Permutations(Values)

=============================================================================
