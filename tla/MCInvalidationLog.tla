------------------------- MODULE MCInvalidationLog --------------------------
(***************************************************************************)
(* A few nodes and keys for TLC.  Nodes and keys are never compared but    *)
(* for equality.                                                           *)
(***************************************************************************)
EXTENDS InvalidationLog, TLC

LogSymmetry == Permutations(Nodes) \cup Permutations(Keys)

=============================================================================
