-------------------------- MODULE MCCountMinSketch --------------------------
(***************************************************************************)
(* A small sketch for TLC: 2 rows of 2 columns over 4 hashes, two to a     *)
(* column, and counters that saturate at 5.  A behaviour exercises either  *)
(* the sketch alone or the single-threaded oracle, which keeps its         *)
(* transitions in such a sketch, over three keys (hash 0 is one of them)   *)
(* and with an aging every 4 transitions.                                  *)
(***************************************************************************)
EXTENDS CountMinSketch, MarkovOracle, Bitwise

VARIABLE part

Exchanged(h) == (h % 2) * 2 + h \div 2

MCMix == [p \in Hashes \X Hashes |-> p[1] ^^ Exchanged(p[2])]

MCInit == Init /\ OracleInit /\ part \in {"sketch", "oracle"}

MCNext ==
    /\ UNCHANGED part
    /\ \/ part = "sketch" /\ Next /\ UNCHANGED oracleVars
       \/ part = "oracle" /\ OracleNext /\ UNCHANGED vars

MCSpec == MCInit /\ [][MCNext]_<<vars, oracleVars, part>>

=============================================================================
