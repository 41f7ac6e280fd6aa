--------------------------- MODULE MCSharedOracle ---------------------------
(***************************************************************************)
(* A small oracle for TLC: hashes of two bits, and the code's mix on them  *)
(* (one hash xored with the other's halves exchanged).                     *)
(***************************************************************************)
EXTENDS SharedOracle, Bitwise

Exchanged(h) == (h % 2) * 2 + h \div 2
MCMix == [p \in Hashes \X Hashes |-> p[1] ^^ Exchanged(p[2])]

=============================================================================
