------------------------------ MODULE CountMin ------------------------------
(***************************************************************************)
(* The count-min sketch of sketch.rs as operators on its value: Depth rows *)
(* of Width saturating counters and the number of items added.  A hash is  *)
(* a word, and each row adds its own multiple of Golden to it, modulo the  *)
(* word size, before it takes the column: the arithmetic is the code's,    *)
(* scaled down.                                                            *)
(***************************************************************************)
EXTENDS Naturals, FiniteSetsExt

CONSTANTS
    Width,       \* columns of a row (256 in a shard, a power of two)
    Depth,       \* rows (4 in a shard)
    Word,        \* number of values of a hash (2^64)
    Golden,      \* the per-row offset (0x9E3779B97F4A7C15)
    CounterMax,  \* u8::MAX
    TotalMax     \* u64::MAX

(***************************************************************************)
(* Width divides Word, as both are powers of two; the total counter is     *)
(* wider than a row of saturated counters (256 * 255 < 2^64).              *)
(***************************************************************************)
ASSUME SketchAssumption ==
    /\ Width \in Nat \ {0}
    /\ Depth \in Nat \ {0}
    /\ Word \in Nat \ {0}
    /\ Golden \in Nat
    /\ CounterMax \in Nat \ {0}
    /\ TotalMax \in Nat
    /\ Word % Width = 0
    /\ Width * CounterMax <= TotalMax

Hashes == 0 .. Word - 1
Rows == 0 .. Depth - 1
Columns == 0 .. Width - 1
Counters == 0 .. CounterMax

\* The column of hash h in row i.
Index(h, i) == ((h + i * Golden) % Word) % Width

SaturatingAdd(x, n, max) == IF x + n > max THEN max ELSE x + n

Sketches ==
    [table : [Rows -> [Columns -> Counters]], total : 0 .. TotalMax]

EmptySketch ==
    [table |-> [i \in Rows |-> [c \in Columns |-> 0]], total |-> 0]

\* Mutant: the loop over the rows stops one short.
AddCountShort(s, h, n) ==
    [table |-> [i \in Rows |->
                   IF i = Depth - 1 THEN s.table[i]
                   ELSE [s.table[i] EXCEPT
                            ![Index(h, i)] = SaturatingAdd(@, n, CounterMax)]],
     total |-> SaturatingAdd(s.total, n, TotalMax)]

AddCount(s, h, n) ==
    [table |-> [i \in Rows |->
                   [s.table[i] EXCEPT
                       ![Index(h, i)] = SaturatingAdd(@, n, CounterMax)]],
     total |-> SaturatingAdd(s.total, n, TotalMax)]

\* Mutant: halving rounds up.
HalvedUp(s) ==
    [table |-> [i \in Rows |-> [c \in Columns |-> (s.table[i][c] + 1) \div 2]],
     total |-> s.total \div 2]

\* Mutant: the last row is left out.
HalvedShort(s) ==
    [table |-> [i \in Rows |-> [c \in Columns |->
                  IF i = Depth - 1 THEN s.table[i][c] ELSE s.table[i][c] \div 2]],
     total |-> s.total \div 2]

Halved(s) ==
    [table |-> [i \in Rows |-> [c \in Columns |-> s.table[i][c] \div 2]],
     total |-> s.total \div 2]

\* The least counter of h over the rows; the scan starts from CounterMax.
Estimate(s, h) ==
    Min({CounterMax} \cup {s.table[i][Index(h, i)] : i \in Rows})

=============================================================================
