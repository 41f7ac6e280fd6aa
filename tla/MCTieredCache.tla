--------------------------- MODULE MCTieredCache ----------------------------
(***************************************************************************)
(* Small two-tier stores for TLC, capacities of 0 among them.              *)
(***************************************************************************)
EXTENDS TieredCache, TLC

CONSTANTS v1, v2

ValueSymmetry == Permutations(Values)

=============================================================================
