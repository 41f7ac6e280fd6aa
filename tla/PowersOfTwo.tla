----------------------------- MODULE PowersOfTwo -----------------------------
(***************************************************************************)
(* Powers of two, for words and floats of any number of bits.  A function  *)
(* and not n |-> 2 ^ n, of which the provers know nothing.                 *)
(***************************************************************************)
EXTENDS Naturals

Two[n \in Nat] == IF n = 0 THEN 1 ELSE 2 * Two[n - 1]

=============================================================================
