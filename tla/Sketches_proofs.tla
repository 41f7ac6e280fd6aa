--------------------------- MODULE Sketches_proofs ---------------------------
(***************************************************************************)
(* Proofs about the sketch and about the oracle for one thread, for every  *)
(* width, depth and word size, every set of keys, mixing of hashes,        *)
(* threshold and period.  That no estimate is an underestimate is not      *)
(* inductive, since an estimate says nothing of the counters above it: the *)
(* invariants are that EVERY row's counter of a hash, and of a transition, *)
(* dominates its own; and the oracle's last key and age are what an        *)
(* observer has seen.                                                      *)
(***************************************************************************)
EXTENDS CountMinSketch, MarkovOracle, Counting

-----------------------------------------------------------------------------
(* Columns.                                                                *)

\* Hashing lands on a column of the row.
LEMMA IndexInRange ==
    ASSUME NEW h \in Hashes, NEW i \in Rows
    PROVE  Index(h, i) \in Columns
<1>1. (h + i * Golden) \in Nat
  BY SketchAssumption DEF Hashes, Rows
<1>2. ((h + i * Golden) % Word) \in Nat
  BY <1>1, SketchAssumption
<1> QED
  BY <1>2, SketchAssumption DEF Index, Columns

\* Two hashes share a column of a row exactly if they agree modulo the width,
\* whichever the row: no row separates what another confuses (sketch.rs, index).
THEOREM RowsCollideAlike ==
    ASSUME NEW h \in Hashes, NEW g \in Hashes, NEW i \in Rows
    PROVE  Index(h, i) = Index(g, i) <=> h % Width = g % Width
<1> DEFINE c == i * Golden
<1>1. /\ h \in Nat /\ g \in Nat /\ c \in Nat
      /\ Width \in Nat \ {0} /\ Word \in Nat \ {0} /\ Word % Width = 0
  BY SketchAssumption DEF Hashes, Rows
<1>2. /\ Index(h, i) = ((h + c) % Word) % Width
      /\ Index(g, i) = ((g + c) % Word) % Width
  BY DEF Index
<1> HIDE DEF c
<1>3. h + c \in Nat /\ g + c \in Nat
  BY <1>1
<1>4. Index(h, i) = (h + c) % Width /\ Index(g, i) = (g + c) % Width
  <2>1. ((h + c) % Word) % Width = (h + c) % Width
    BY <1>1, <1>3, ModMod
  <2>2. ((g + c) % Word) % Width = (g + c) % Width
    BY <1>1, <1>3, ModMod
  <2> QED
    BY <1>2, <2>1, <2>2
<1>5. Congruent(h, g, Width) => Congruent(h + c, g + c, Width)
  BY <1>1, ModShift
<1>6. Congruent(h + c, g + c, Width) => Congruent(h, g, Width)
  BY <1>1, ModCancel
<1> QED
  BY <1>4, <1>5, <1>6 DEF Congruent

-----------------------------------------------------------------------------
(* Types.                                                                  *)

LEMMA EmptySketchType == EmptySketch \in Sketches
  BY SketchAssumption DEF EmptySketch, Sketches, Counters

LEMMA AddCountType ==
    ASSUME NEW s \in Sketches, NEW h \in Hashes, NEW n \in Nat
    PROVE  AddCount(s, h, n) \in Sketches
<1>1. \A x \in Counters : SaturatingAdd(x, n, CounterMax) \in Counters
  BY SketchAssumption DEF SaturatingAdd, Counters
<1>2. SaturatingAdd(s.total, n, TotalMax) \in 0 .. TotalMax
  BY SketchAssumption DEF SaturatingAdd, Sketches
<1>3. \A i \in Rows : s.table[i] \in [Columns -> Counters]
  BY DEF Sketches
<1>4. ASSUME NEW i \in Rows
      PROVE  [s.table[i] EXCEPT
                 ![Index(h, i)] = SaturatingAdd(@, n, CounterMax)]
               \in [Columns -> Counters]
  BY <1>1, <1>3, IndexInRange
<1> QED
  BY <1>2, <1>4 DEF AddCount, Sketches

LEMMA HalvedType ==
    ASSUME NEW s \in Sketches
    PROVE  Halved(s) \in Sketches
<1>1. \A i \in Rows, c \in Columns : s.table[i][c] \div 2 \in Counters
  BY SketchAssumption DEF Sketches, Counters
<1>2. s.total \div 2 \in 0 .. TotalMax
  BY SketchAssumption DEF Sketches
<1> QED
  BY <1>1, <1>2 DEF Halved, Sketches

-----------------------------------------------------------------------------
(* What each operation does to one counter.                                *)

LEMMA EmptyCell ==
    ASSUME NEW i \in Rows, NEW c \in Columns
    PROVE  EmptySketch.table[i][c] = 0
  BY DEF EmptySketch

LEMMA HalvedCell ==
    ASSUME NEW s \in Sketches, NEW i \in Rows, NEW c \in Columns
    PROVE  Halved(s).table[i][c] = s.table[i][c] \div 2
  BY DEF Halved

LEMMA AddCountCell ==
    ASSUME NEW s \in Sketches, NEW h \in Hashes, NEW n \in Nat,
           NEW i \in Rows, NEW c \in Columns
    PROVE  AddCount(s, h, n).table[i][c] =
             IF c = Index(h, i) THEN SaturatingAdd(s.table[i][c], n, CounterMax)
             ELSE s.table[i][c]
<1>1. s.table[i] \in [Columns -> Counters]
  BY DEF Sketches
<1>2. AddCount(s, h, n).table[i] =
        [s.table[i] EXCEPT ![Index(h, i)] = SaturatingAdd(@, n, CounterMax)]
  BY DEF AddCount
<1> QED
  BY <1>1, <1>2

LEMMA CellType ==
    ASSUME NEW s \in Sketches, NEW i \in Rows, NEW c \in Columns
    PROVE  s.table[i][c] \in Counters
  BY DEF Sketches

\* Saturation keeps the order of two counters, whichever saturates.
LEMMA SaturatingAddMonotone ==
    ASSUME NEW x \in Counters, NEW y \in Counters, NEW n \in Nat, x <= y
    PROVE  /\ SaturatingAdd(x, n, CounterMax) <= SaturatingAdd(y, n, CounterMax)
           /\ y <= SaturatingAdd(y, n, CounterMax)
           /\ SaturatingAdd(x, n, CounterMax) \in Counters
  BY SketchAssumption DEF SaturatingAdd, Counters

-----------------------------------------------------------------------------
(* Estimates.                                                              *)

\* An estimate is no greater than any of the hash's counters, and is one of
\* them or the ceiling.
LEMMA EstimateFacts ==
    ASSUME NEW s \in Sketches, NEW h \in Hashes
    PROVE  /\ Estimate(s, h) \in Counters
           /\ \A i \in Rows : Estimate(s, h) <= s.table[i][Index(h, i)]
           /\ \/ Estimate(s, h) = CounterMax
              \/ \E i \in Rows : Estimate(s, h) = s.table[i][Index(h, i)]
<1> DEFINE R == {CounterMax} \cup {s.table[i][Index(h, i)] : i \in Rows}
<1>1. \A i \in Rows : s.table[i][Index(h, i)] \in Counters
  BY IndexInRange DEF Sketches
<1>2. R \subseteq Counters /\ Counters \subseteq Nat /\ CounterMax \in R
  BY <1>1, SketchAssumption DEF Counters
<1> HIDE DEF R
<1>3. Min(R) \in R /\ \A x \in R : Min(R) <= x
  BY <1>2, MinOfNaturals
<1>4. Estimate(s, h) = Min(R)
  BY DEF Estimate, R
<1> QED
  BY <1>2, <1>3, <1>4 DEF R

\* A shard is blind to frequency once there are as many shards as columns
\* (cache.rs, get_shard_idx; sketch.rs, index): the shard takes the low bits of
\* a hash, the columns the same bits, so the hashes of one shard share every
\* counter and no estimate tells one from another.
THEOREM ShardIsBlind ==
    ASSUME NEW shards \in Nat \ {0}, shards % Width = 0,
           NEW h \in Hashes, NEW g \in Hashes, h % shards = g % shards,
           NEW s \in Sketches
    PROVE  Estimate(s, h) = Estimate(s, g)
<1>1. h \in Nat /\ g \in Nat /\ Width \in Nat \ {0}
  BY SketchAssumption DEF Hashes
<1>2. (h % shards) % Width = h % Width /\ (g % shards) % Width = g % Width
  <2>1. (h % shards) % Width = h % Width
    BY <1>1, ModMod
  <2>2. (g % shards) % Width = g % Width
    BY <1>1, ModMod
  <2> QED
    BY <2>1, <2>2
<1>3. h % Width = g % Width
  BY <1>2
<1>4. \A i \in Rows : Index(h, i) = Index(g, i)
  BY <1>3, RowsCollideAlike
<1>5. {s.table[i][Index(h, i)] : i \in Rows} = {s.table[i][Index(g, i)] : i \in Rows}
  BY <1>4
<1> QED
  BY <1>5 DEF Estimate

-----------------------------------------------------------------------------
(* The sketch.                                                             *)

\* In every row the counter of a hash is at least the hash's own.
CellsDominate ==
    \A h \in Hashes, i \in Rows : sketch.table[i][Index(h, i)] >= own[h]

SketchInv == TypeOK /\ CellsDominate

-----------------------------------------------------------------------------
LEMMA SketchInvInit == Init => SketchInv
<1> SUFFICES ASSUME Init PROVE SketchInv
  OBVIOUS
<1>1. TypeOK
  BY EmptySketchType, SketchAssumption DEF Init, TypeOK, Counters
<1>2. CellsDominate
  BY EmptyCell, IndexInRange DEF Init, CellsDominate
<1> QED
  BY <1>1, <1>2 DEF SketchInv

LEMMA SketchInvNext == SketchInv /\ [Next]_vars => SketchInv'
<1> SUFFICES ASSUME SketchInv, [Next]_vars PROVE SketchInv'
  OBVIOUS
<1>1. /\ sketch \in Sketches /\ own \in [Hashes -> Counters]
      /\ \A h \in Hashes, i \in Rows : sketch.table[i][Index(h, i)] >= own[h]
  BY DEF SketchInv, TypeOK, CellsDominate
<1>2. ASSUME NEW g \in Hashes, NEW n \in Counts, Add(g, n) PROVE SketchInv'
  <2>1. n \in Nat /\ sketch' = AddCount(sketch, g, n)
    BY <1>2, CountsAssumption, SketchAssumption DEF Add, Counters
  <2>2. sketch' \in Sketches
    BY <1>1, <2>1, AddCountType
  <2>3. own[g] \in Counters /\ own[g] <= own[g]
    BY <1>1, SketchAssumption DEF Counters
  <2>4. own' \in [Hashes -> Counters]
    BY <1>1, <1>2, <2>1, <2>3, SaturatingAddMonotone DEF Add
  <2>5. ASSUME NEW h \in Hashes, NEW i \in Rows
        PROVE  sketch'.table[i][Index(h, i)] >= own'[h]
    <3>1. /\ Index(h, i) \in Columns
          /\ sketch.table[i][Index(h, i)] \in Counters /\ own[h] \in Counters
          /\ own[h] <= sketch.table[i][Index(h, i)]
      BY <1>1, IndexInRange, CellType
    <3>2. sketch'.table[i][Index(h, i)] =
            IF Index(h, i) = Index(g, i)
            THEN SaturatingAdd(sketch.table[i][Index(h, i)], n, CounterMax)
            ELSE sketch.table[i][Index(h, i)]
      BY <1>1, <2>1, <3>1, AddCountCell
    <3>3. own'[h] = IF h = g THEN SaturatingAdd(own[h], n, CounterMax) ELSE own[h]
      BY <1>1, <1>2 DEF Add
    <3>4. /\ SaturatingAdd(own[h], n, CounterMax)
               <= SaturatingAdd(sketch.table[i][Index(h, i)], n, CounterMax)
          /\ sketch.table[i][Index(h, i)]
               <= SaturatingAdd(sketch.table[i][Index(h, i)], n, CounterMax)
          /\ SaturatingAdd(sketch.table[i][Index(h, i)], n, CounterMax) \in Counters
          /\ SaturatingAdd(own[h], n, CounterMax) \in Counters
      <4>1. /\ sketch.table[i][Index(h, i)] <= sketch.table[i][Index(h, i)]
            /\ own[h] <= own[h]
        BY <3>1, SketchAssumption DEF Counters
      <4> QED
        BY <2>1, <3>1, <4>1, SaturatingAddMonotone
    <3> QED
      BY <3>1, <3>2, <3>3, <3>4, SketchAssumption DEF Counters
  <2> QED
    BY <2>2, <2>4, <2>5 DEF SketchInv, TypeOK, CellsDominate
<1>3. ASSUME Halve PROVE SketchInv'
  <2>1. sketch' = Halved(sketch) /\ own' = [h \in Hashes |-> own[h] \div 2]
    BY <1>3 DEF Halve
  <2>2. \A x \in Counters : x \div 2 \in Counters
    BY SketchAssumption DEF Counters
  <2>3. TypeOK'
    BY <1>1, <2>1, <2>2, HalvedType DEF TypeOK
  <2>4. ASSUME NEW h \in Hashes, NEW i \in Rows
        PROVE  sketch'.table[i][Index(h, i)] >= own'[h]
    <3>1. /\ Index(h, i) \in Columns
          /\ sketch.table[i][Index(h, i)] \in Counters /\ own[h] \in Counters
          /\ own[h] <= sketch.table[i][Index(h, i)]
      BY <1>1, IndexInRange, CellType
    <3>2. sketch'.table[i][Index(h, i)] = sketch.table[i][Index(h, i)] \div 2
      BY <1>1, <2>1, <3>1, HalvedCell
    <3> QED
      BY <2>1, <3>1, <3>2, SketchAssumption DEF Counters
  <2> QED
    BY <2>3, <2>4 DEF SketchInv, CellsDominate
<1>4. ASSUME Clear PROVE SketchInv'
  <2>1. TypeOK'
    BY <1>4, EmptySketchType, SketchAssumption DEF Clear, TypeOK, Counters
  <2>2. CellsDominate'
    BY <1>4, EmptyCell, IndexInRange DEF Clear, CellsDominate
  <2> QED
    BY <2>1, <2>2 DEF SketchInv
<1>5. ASSUME UNCHANGED vars PROVE SketchInv'
  BY <1>5 DEF SketchInv, TypeOK, CellsDominate, vars
<1> QED
  BY <1>2, <1>3, <1>4, <1>5 DEF Next

LEMMA SketchInvAlways == Spec => []SketchInv
  BY SketchInvInit, SketchInvNext, PTL DEF Spec

-----------------------------------------------------------------------------
\* The counters keep their types.
THEOREM SketchTypeCorrect == Spec => []TypeOK
<1>1. SketchInv => TypeOK
  BY DEF SketchInv
<1> QED
  BY <1>1, SketchInvAlways, PTL

\* No underestimate (sketch.rs, estimate): through every order of adds,
\* saturations, halvings and clears.
THEOREM NoUnderestimate == Spec => []NeverUnderestimates
<1>1. SketchInv => NeverUnderestimates
  <2> SUFFICES ASSUME SketchInv, NEW h \in Hashes
               PROVE  Estimate(sketch, h) >= own[h]
    BY DEF NeverUnderestimates
  <2>1. sketch \in Sketches /\ own[h] \in Counters
    BY DEF SketchInv, TypeOK
  <2>2. /\ Estimate(sketch, h) \in Counters
        /\ \/ Estimate(sketch, h) = CounterMax
           \/ \E i \in Rows : Estimate(sketch, h) = sketch.table[i][Index(h, i)]
    BY <2>1, EstimateFacts
  <2>3. \A i \in Rows : sketch.table[i][Index(h, i)] >= own[h]
    BY DEF SketchInv, CellsDominate
  <2> QED
    BY <2>1, <2>2, <2>3, SketchAssumption DEF Counters
<1> QED
  BY <1>1, SketchInvAlways, PTL

\* All rows tell the same (sketch.rs, index): a single row of the same width
\* would give every estimate that the whole table gives.
THEOREM DepthIsIdle == Spec => []RowsAgree
<1> DEFINE Agree(t) == \A h \in Hashes, i \in Rows :
                         t[i][Index(h, i)] = t[0][Index(h, 0)]
<1>1. 0 \in Rows
  BY SketchAssumption DEF Rows
<1>2. RowsAgree <=> Agree(sketch.table)
  BY DEF RowsAgree
<1>3. Agree(EmptySketch.table)
  BY <1>1, EmptyCell, IndexInRange
<1>4. Init => RowsAgree
  BY <1>2, <1>3 DEF Init
<1>5. ASSUME SketchInv, RowsAgree, [Next]_vars
      PROVE  RowsAgree'
  <2>1. sketch \in Sketches /\ Agree(sketch.table)
    BY <1>2, <1>5 DEF SketchInv, TypeOK
  <2>2. ASSUME NEW g \in Hashes, NEW n \in Counts, Add(g, n)
        PROVE  Agree(sketch'.table)
    <3>1. n \in Nat /\ sketch' = AddCount(sketch, g, n)
      BY <2>2, CountsAssumption, SketchAssumption DEF Add, Counters
    <3>2. ASSUME NEW h \in Hashes, NEW i \in Rows
          PROVE  sketch'.table[i][Index(h, i)] = sketch'.table[0][Index(h, 0)]
      <4>1. Index(h, i) = Index(g, i) <=> Index(h, 0) = Index(g, 0)
        BY <1>1, RowsCollideAlike
      <4>2. Index(h, i) \in Columns /\ Index(h, 0) \in Columns
        BY <1>1, IndexInRange
      <4>3. sketch.table[i][Index(h, i)] = sketch.table[0][Index(h, 0)]
        BY <2>1
      <4> QED
        BY <1>1, <2>1, <3>1, <4>1, <4>2, <4>3, AddCountCell
    <3> QED
      BY <3>2
  <2>3. ASSUME Halve PROVE Agree(sketch'.table)
    <3>1. sketch' = Halved(sketch)
      BY <2>3 DEF Halve
    <3>2. ASSUME NEW h \in Hashes, NEW i \in Rows
          PROVE  sketch'.table[i][Index(h, i)] = sketch'.table[0][Index(h, 0)]
      <4>1. Index(h, i) \in Columns /\ Index(h, 0) \in Columns
        BY <1>1, IndexInRange
      <4> QED
        BY <1>1, <2>1, <3>1, <4>1, HalvedCell
    <3> QED
      BY <3>2
  <2>4. ASSUME Clear PROVE Agree(sketch'.table)
    BY <1>3, <2>4 DEF Clear
  <2>5. ASSUME UNCHANGED vars PROVE Agree(sketch'.table)
    BY <2>1, <2>5 DEF vars
  <2>6. Agree(sketch'.table)
    BY <1>5, <2>2, <2>3, <2>4, <2>5 DEF Next
  <2> QED
    BY <2>6 DEF RowsAgree
<1> QED
  BY <1>4, <1>5, SketchInvAlways, PTL DEF Spec

-----------------------------------------------------------------------------
(* The error of the sketch.                                                *)

\* The hashes of a column are finitely many, h among them.
LEMMA SharingFacts ==
    ASSUME NEW h \in Hashes, NEW i \in Rows
    PROVE  /\ Sharing(h, i) \in SUBSET Hashes /\ IsFiniteSet(Sharing(h, i))
           /\ h \in Sharing(h, i) /\ Cardinality(Sharing(h, i)) \in Nat \ {0}
<1>1. IsFiniteSet(Hashes)
  <2>1. 0 \in Int /\ Word - 1 \in Int
    BY SketchAssumption
  <2> QED
    BY <2>1, FS_Interval DEF Hashes
<1>2. Sharing(h, i) \in SUBSET Hashes /\ h \in Sharing(h, i)
  BY DEF Sharing
<1>3. IsFiniteSet(Sharing(h, i))
  BY <1>1, <1>2, FS_Subset
<1> QED
  BY <1>2, <1>3, FS_CardinalityType, FS_EmptySet

\* A count added to a shared counter is added to one counter of the column's own;
\* when that one saturates it alone is as much as the shared counter can hold.
LEMMA AddError ==
    ASSUME NEW S \in SUBSET Hashes, IsFiniteSet(S), NEW g \in S, NEW n \in Nat,
           NEW before \in [Hashes -> Counters], NEW cell \in Counters,
           NEW slack \in Nat, cell <= Total(before, S) + slack
    PROVE  SaturatingAdd(cell, n, CounterMax)
             <= Total([before EXCEPT ![g] = SaturatingAdd(@, n, CounterMax)], S) + slack
<1> DEFINE after == [before EXCEPT ![g] = SaturatingAdd(@, n, CounterMax)]
<1>1. /\ before[g] \in Nat /\ cell \in Nat /\ CounterMax \in Nat /\ cell <= CounterMax
      /\ SaturatingAdd(before[g], n, CounterMax) \in Nat
      /\ SaturatingAdd(cell, n, CounterMax) \in Nat
      /\ SaturatingAdd(cell, n, CounterMax) <= CounterMax
      /\ SaturatingAdd(cell, n, CounterMax) <= cell + n
      /\ \/ SaturatingAdd(before[g], n, CounterMax) = CounterMax
         \/ SaturatingAdd(before[g], n, CounterMax) = before[g] + n
  BY SketchAssumption DEF Counters, SaturatingAdd
<1>2. before \in [Hashes -> Nat] /\ after \in [Hashes -> Nat]
  BY <1>1 DEF Counters
<1>3. /\ after[g] = SaturatingAdd(before[g], n, CounterMax)
      /\ \A y \in S \ {g} : before[y] \in Nat /\ after[y] = before[y]
  BY <1>2
<1> HIDE DEF after
<1>4. /\ Total(before, S) \in Nat /\ Total(before, S \ {g}) \in Nat
      /\ Total(before, S) = before[g] + Total(before, S \ {g})
  BY <1>2, SumOne
<1>5. /\ Total(after, S) \in Nat
      /\ Total(after, S) = after[g] + Total(after, S \ {g})
  BY <1>2, SumOne
<1>6. Total(after, S \ {g}) = Total(before, S \ {g})
  <2>1. IsFiniteSet(S \ {g})
    BY FS_Subset
  <2> QED
    BY <1>3, <2>1, SumSame
<1>7. SaturatingAdd(cell, n, CounterMax) <= Total(after, S) + slack
  BY <1>1, <1>3, <1>4, <1>5, <1>6
<1> QED
  BY <1>7 DEF after

\* Halved, a shared counter rises above the sum by one for each further hash.
LEMMA HalveError ==
    ASSUME NEW S \in SUBSET Hashes, IsFiniteSet(S), S # {},
           NEW before \in [Hashes -> Counters], NEW cell \in Counters,
           cell <= Total(before, S) + Cardinality(S) - 1
    PROVE  cell \div 2 <= Total([h \in Hashes |-> before[h] \div 2], S) + Cardinality(S) - 1
<1> DEFINE after == [h \in Hashes |-> before[h] \div 2]
<1>1. \A x \in Counters : /\ x \in Nat /\ x \div 2 \in Nat
                          /\ x <= 2 * (x \div 2) + 1 /\ 2 * (x \div 2) <= x
  BY SketchAssumption DEF Counters
<1>2. before \in [Hashes -> Nat] /\ after \in [Hashes -> Nat]
  BY <1>1
<1>3. \A x \in S : before[x] <= 2 * after[x] + 1
  BY <1>1
<1> HIDE DEF after
<1>4. Total(before, S) <= 2 * Total(after, S) + Cardinality(S)
  BY <1>2, <1>3, SumOfHalves
<1>5. Total(before, S) \in Nat /\ Total(after, S) \in Nat /\ Cardinality(S) \in Nat
  <2>1. (\A x \in S : before[x] \in Nat) /\ (\A x \in S : after[x] \in Nat)
    BY <1>2
  <2> QED
    BY <2>1, SumIsSize, FS_CardinalityType
<1>6. cell \div 2 <= Total(after, S) + Cardinality(S) - 1
  BY <1>1, <1>4, <1>5
<1> QED
  BY <1>6 DEF after

\* Every counter of a table is within its column's own counters and their number.
Bounded(t, o) ==
    \A h \in Hashes, i \in Rows :
        t[i][Index(h, i)] <= Total(o, Sharing(h, i)) + Cardinality(Sharing(h, i)) - 1

Within == Bounded(sketch.table, own)

LEMMA WithinIsError == ErrorOnlyFromSharing <=> Within
  BY DEF ErrorOnlyFromSharing, Within, Bounded, Total

LEMMA WithinIsErrorNext == ErrorOnlyFromSharing' <=> Within'
  BY WithinIsError, PTL

\* The error is only what the other hashes of a column bring (sketch.rs, halve):
\* for every width, word size and history, a counter exceeds the dedicated
\* counters of its column by one per further hash at most, saturated or aged.
THEOREM ErrorIsSharing == Spec => []ErrorOnlyFromSharing
<1> DEFINE fresh == [h \in Hashes |-> 0]
<1>2. Bounded(EmptySketch.table, fresh)
  <2>1. ASSUME NEW h \in Hashes, NEW i \in Rows
        PROVE  EmptySketch.table[i][Index(h, i)]
                 <= Total(fresh, Sharing(h, i)) + Cardinality(Sharing(h, i)) - 1
    <3>1. EmptySketch.table[i][Index(h, i)] = 0
      BY EmptyCell, IndexInRange
    <3>2. Cardinality(Sharing(h, i)) \in Nat \ {0}
      BY SharingFacts
    <3>3. Total(fresh, Sharing(h, i)) \in Nat
      <4>1. IsFiniteSet(Sharing(h, i)) /\ \A x \in Sharing(h, i) : fresh[x] \in Nat
        BY SharingFacts
      <4> HIDE DEF fresh
      <4> QED
        BY <4>1, SumIsSize
    <3> QED
      BY <3>1, <3>2, <3>3
  <2> QED
    BY <2>1 DEF Bounded
<1>3. Init => ErrorOnlyFromSharing
  BY <1>2, WithinIsError DEF Init, Within
<1>4. ASSUME SketchInv, ErrorOnlyFromSharing, [Next]_vars
      PROVE  ErrorOnlyFromSharing'
  <2>1. sketch \in Sketches /\ own \in [Hashes -> Counters] /\ Bounded(sketch.table, own)
    BY <1>4, WithinIsError DEF SketchInv, TypeOK, Within
  <2>2. ASSUME NEW h \in Hashes, NEW i \in Rows
        PROVE  /\ Index(h, i) \in Columns /\ sketch.table[i][Index(h, i)] \in Counters
               /\ sketch.table[i][Index(h, i)]
                    <= Total(own, Sharing(h, i)) + Cardinality(Sharing(h, i)) - 1
    BY <2>1, IndexInRange, CellType DEF Bounded
  <2>3. ASSUME NEW g \in Hashes, NEW n \in Counts, Add(g, n)
        PROVE  Bounded(sketch'.table, own')
    <3>1. /\ n \in Nat /\ sketch' = AddCount(sketch, g, n)
          /\ own' = [own EXCEPT ![g] = SaturatingAdd(@, n, CounterMax)]
      BY <2>3, CountsAssumption, SketchAssumption DEF Add, Counters
    <3>2. ASSUME NEW h \in Hashes, NEW i \in Rows
          PROVE  sketch'.table[i][Index(h, i)]
                   <= Total(own', Sharing(h, i)) + Cardinality(Sharing(h, i)) - 1
      <4> DEFINE S == Sharing(h, i)
                 cell == sketch.table[i][Index(h, i)]
      <4>1. /\ S \in SUBSET Hashes /\ IsFiniteSet(S) /\ Cardinality(S) \in Nat \ {0}
            /\ (g \in S <=> Index(g, i) = Index(h, i))
        BY SharingFacts DEF Sharing
      <4>2. cell \in Counters /\ cell <= Total(own, S) + Cardinality(S) - 1
        BY <2>2
      <4>3. sketch'.table[i][Index(h, i)] =
              IF Index(h, i) = Index(g, i) THEN SaturatingAdd(cell, n, CounterMax) ELSE cell
        BY <2>1, <2>2, <3>1, AddCountCell
      <4> HIDE DEF S, cell
      <4>4. \A x \in S : own[x] \in Nat
        BY <2>1, <4>1, SketchAssumption DEF Counters
      <4>5. Total(own, S) \in Nat
        BY <4>1, <4>4, SumIsSize
      <4>6. ASSUME g \in S
            PROVE  SaturatingAdd(cell, n, CounterMax) <= Total(own', S) + Cardinality(S) - 1
        <5>1. Cardinality(S) - 1 \in Nat /\ cell <= Total(own, S) + (Cardinality(S) - 1)
          BY <4>1, <4>2, <4>5, SketchAssumption DEF Counters
        <5>2. SaturatingAdd(cell, n, CounterMax)
                <= Total([own EXCEPT ![g] = SaturatingAdd(@, n, CounterMax)], S)
                     + (Cardinality(S) - 1)
          BY <2>1, <3>1, <4>1, <4>2, <4>6, <5>1, AddError
        <5>3. SaturatingAdd(cell, n, CounterMax) <= Total(own', S) + (Cardinality(S) - 1)
          BY <3>1, <5>2
        <5>4. Total(own', S) \in Nat
          <6>1. \A x \in S : own'[x] \in Nat
            BY <2>1, <3>1, <4>1, SketchAssumption DEF Counters, SaturatingAdd
          <6> QED
            BY <4>1, <6>1, SumIsSize
        <5> QED
          BY <4>1, <5>3, <5>4
      <4>7. ASSUME g \notin S
            PROVE  cell <= Total(own', S) + Cardinality(S) - 1
        <5>1. \A x \in S : own[x] \in Nat /\ own'[x] = own[x]
          BY <2>1, <3>1, <4>1, <4>4, <4>7
        <5>2. Total(own', S) = Total(own, S)
          BY <4>1, <5>1, SumSame
        <5> QED
          BY <4>2, <5>2
      <4>8. sketch'.table[i][Index(h, i)] <= Total(own', S) + Cardinality(S) - 1
        BY <4>1, <4>3, <4>6, <4>7
      <4> QED
        BY <4>8 DEF S
    <3> QED
      BY <3>2 DEF Bounded
  <2>4. ASSUME Halve
        PROVE  Bounded(sketch'.table, own')
    <3>1. sketch' = Halved(sketch) /\ own' = [h \in Hashes |-> own[h] \div 2]
      BY <2>4 DEF Halve
    <3>2. ASSUME NEW h \in Hashes, NEW i \in Rows
          PROVE  sketch'.table[i][Index(h, i)]
                   <= Total(own', Sharing(h, i)) + Cardinality(Sharing(h, i)) - 1
      <4>1. sketch'.table[i][Index(h, i)] = sketch.table[i][Index(h, i)] \div 2
        BY <2>1, <2>2, <3>1, HalvedCell
      <4>2. /\ Sharing(h, i) \in SUBSET Hashes /\ IsFiniteSet(Sharing(h, i))
            /\ Sharing(h, i) # {}
        BY SharingFacts
      <4>3. sketch.table[i][Index(h, i)] \div 2
              <= Total([g \in Hashes |-> own[g] \div 2], Sharing(h, i))
                   + Cardinality(Sharing(h, i)) - 1
        BY <2>1, <2>2, <4>2, HalveError
      <4> QED
        BY <3>1, <4>1, <4>3
    <3> QED
      BY <3>2 DEF Bounded
  <2>5. ASSUME Clear
        PROVE  Bounded(sketch'.table, own')
    BY <1>2, <2>5 DEF Clear
  <2>6. ASSUME UNCHANGED vars
        PROVE  Bounded(sketch'.table, own')
    BY <2>1, <2>6 DEF vars
  <2>7. Bounded(sketch'.table, own')
    BY <1>4, <2>3, <2>4, <2>5, <2>6 DEF Next
  <2> QED
    BY <2>7, WithinIsErrorNext DEF Within
<1> QED
  BY <1>3, <1>4, SketchInvAlways, PTL DEF Spec

-----------------------------------------------------------------------------
(* The oracle for one thread.                                              *)

\* In every row the counter of a pair is at least the pair's own.
PairsDominate ==
    \A p \in Pairs, i \in Rows :
        transitions[i][Index(Link(p[1], p[2]), i)] >= owned[p]

\* A counter of row 0 that could earn advice has been counted up to it.
CellsEarned ==
    \A c \in Columns : transitions[0][c] <= noted[c] \/ noted[c] = Threshold

OracleInv ==
    /\ OracleTypeOK
    /\ owned \in [Pairs -> Counters] /\ noted \in [Columns -> 0 .. Threshold]
    /\ lastKeyHash = previous /\ total = since
    /\ PairsDominate
    /\ CellsEarned

Tables == [Rows -> [Columns -> Counters]]

-----------------------------------------------------------------------------
LEMMA LinkIsHash ==
    ASSUME NEW p \in Pairs
    PROVE  Link(p[1], p[2]) \in Hashes
  BY TransitionAssumption DEF Pairs, Link

LEMMA PlainType ==
    ASSUME NEW t \in Tables
    PROVE  Plain(t) \in Sketches /\ Plain(t).table = t
  BY SketchAssumption DEF Tables, Plain, Sketches

LEMMA AddOneStep ==
    ASSUME NEW t \in Tables, NEW h \in Hashes
    PROVE  /\ AddOne(t, h) \in Tables
           /\ \A i \in Rows, c \in Columns :
                 AddOne(t, h)[i][c] = IF c = Index(h, i)
                                      THEN SaturatingAdd(t[i][c], 1, CounterMax)
                                      ELSE t[i][c]
<1>1. Plain(t) \in Sketches /\ Plain(t).table = t /\ 1 \in Nat
  BY PlainType
<1>2. AddCount(Plain(t), h, 1) \in Sketches
  BY <1>1, AddCountType
<1>3. ASSUME NEW i \in Rows, NEW c \in Columns
      PROVE  AddCount(Plain(t), h, 1).table[i][c] =
               IF c = Index(h, i) THEN SaturatingAdd(t[i][c], 1, CounterMax) ELSE t[i][c]
  BY <1>1, AddCountCell
<1> QED
  BY <1>2, <1>3 DEF AddOne, Sketches, Tables

LEMMA AgedStep ==
    ASSUME NEW t \in Tables
    PROVE  /\ Aged(t) \in Tables
           /\ \A i \in Rows, c \in Columns : Aged(t)[i][c] = t[i][c] \div 2
<1>1. Plain(t) \in Sketches /\ Plain(t).table = t
  BY PlainType
<1>2. Halved(Plain(t)) \in Sketches
  BY <1>1, HalvedType
<1>3. \A i \in Rows, c \in Columns : Halved(Plain(t)).table[i][c] = t[i][c] \div 2
  BY <1>1, HalvedCell
<1> QED
  BY <1>2, <1>3 DEF Aged, Sketches, Tables

\* Halving keeps the order of two counters and lowers one at most.
LEMMA HalvingMonotone ==
    ASSUME NEW x \in Counters, NEW y \in Counters, x <= y
    PROVE  x \div 2 <= y \div 2 /\ y \div 2 <= y /\ y \div 2 \in Counters
  BY SketchAssumption DEF Counters

-----------------------------------------------------------------------------
LEMMA FreshInv ==
    ASSUME NEW t, t = EmptySketch.table
    PROVE  /\ t \in Tables
           /\ \A i \in Rows, c \in Columns : t[i][c] = 0
           /\ NoneOwned \in [Pairs -> Counters] /\ NoneNoted \in [Columns -> 0 .. Threshold]
           /\ \A p \in Pairs : NoneOwned[p] = 0
           /\ \A c \in Columns : NoneNoted[c] = 0
<1>1. t \in Tables
  BY EmptySketchType DEF Sketches, Tables
<1>2. \A i \in Rows, c \in Columns : t[i][c] = 0
  BY EmptyCell
<1>3. 0 \in Counters /\ 0 \in 0 .. Threshold
  BY TransitionAssumption, SketchAssumption DEF Counters
<1> QED
  BY <1>1, <1>2, <1>3 DEF NoneOwned, NoneNoted

\* What new and reset leave.
Cleared ==
    /\ transitions = EmptySketch.table
    /\ lastKeyHash = None /\ total = 0
    /\ previous = None /\ since = 0
    /\ owned = NoneOwned /\ noted = NoneNoted

LEMMA ClearedInv == Cleared => OracleInv
<1> SUFFICES ASSUME Cleared PROVE OracleInv
  OBVIOUS
<1>1. /\ transitions \in Tables
      /\ \A i \in Rows, c \in Columns : transitions[i][c] = 0
      /\ owned \in [Pairs -> Counters] /\ noted \in [Columns -> 0 .. Threshold]
      /\ \A p \in Pairs : owned[p] = 0
      /\ \A c \in Columns : noted[c] = 0
  BY FreshInv DEF Cleared
<1>2. OracleTypeOK
  BY <1>1, TransitionAssumption DEF OracleTypeOK, Cleared, Tables
<1>3. PairsDominate
  BY <1>1, LinkIsHash, IndexInRange DEF PairsDominate
<1>4. CellsEarned
  BY <1>1, SketchAssumption DEF CellsEarned, Rows
<1> QED
  BY <1>1, <1>2, <1>3, <1>4 DEF OracleInv, Cleared

\* The step of a transition: one counter of the table and the pair's own go up,
\* and then all go down if the period is over.
LEMMA TransitionStep ==
    ASSUME OracleInv, NEW h \in Inputs, lastKeyHash # None, Record(h)
    PROVE  OracleInv'
<1> DEFINE from == lastKeyHash
           link == Link(from, h)
           added == AddOne(transitions, link)
           end == total' = 0
           n(p) == SaturatingAdd(owned[p], IF p = <<from, h>> THEN 1 ELSE 0, CounterMax)
           col == Index(link, 0)
<1>1. /\ lastKeyHash' = h /\ previous' = h
      /\ total' = (total + 1) % AgePeriod /\ since' = total'
      /\ transitions' = IF end THEN Aged(added) ELSE added
      /\ owned' = [p \in Pairs |-> IF end THEN n(p) \div 2 ELSE n(p)]
      /\ noted' = [noted EXCEPT ![col] = SaturatingAdd(@, 1, Threshold)]
  BY DEF Record, Noted, OracleInv
<1>2. /\ from \in Inputs /\ <<from, h>> \in Pairs /\ link \in Hashes
      /\ transitions \in Tables /\ owned \in [Pairs -> Counters]
      /\ noted \in [Columns -> 0 .. Threshold]
      /\ total \in Nat /\ AgePeriod \in Nat \ {0}
      /\ 0 \in Rows
  <2>1. from \in Inputs /\ <<from, h>> \in Pairs
    BY DEF OracleInv, OracleTypeOK, Pairs
  <2>2. link \in Hashes
    BY <2>1, LinkIsHash
  <2> QED
    BY <2>1, <2>2, TransitionAssumption, SketchAssumption DEF OracleInv, OracleTypeOK, Tables, Rows
<1>3. col \in Columns
  BY <1>2, IndexInRange
<1>4. /\ added \in Tables
      /\ \A i \in Rows, c \in Columns :
            added[i][c] = IF c = Index(link, i)
                          THEN SaturatingAdd(transitions[i][c], 1, CounterMax)
                          ELSE transitions[i][c]
  BY <1>2, AddOneStep
<1>5. \A p \in Pairs : n(p) \in Counters
  <2>1. \A x \in Counters : SaturatingAdd(x, 1, CounterMax) \in Counters
                            /\ SaturatingAdd(x, 0, CounterMax) \in Counters
    BY SketchAssumption DEF SaturatingAdd, Counters
  <2> QED
    BY <1>2, <2>1
<1>6. \A p \in Pairs, i \in Rows : n(p) <= added[i][Index(Link(p[1], p[2]), i)]
  <2> SUFFICES ASSUME NEW p \in Pairs, NEW i \in Rows
               PROVE  n(p) <= added[i][Index(Link(p[1], p[2]), i)]
    OBVIOUS
  <2> DEFINE c == Index(Link(p[1], p[2]), i)
  <2>1. /\ c \in Columns /\ owned[p] \in Counters /\ transitions[i][c] \in Counters
        /\ owned[p] <= transitions[i][c]
    BY <1>2, LinkIsHash, IndexInRange DEF OracleInv, PairsDominate, Tables, Counters
  <2>2. /\ SaturatingAdd(owned[p], 1, CounterMax) <= SaturatingAdd(transitions[i][c], 1, CounterMax)
        /\ SaturatingAdd(owned[p], 0, CounterMax) = owned[p]
        /\ transitions[i][c] <= SaturatingAdd(transitions[i][c], 1, CounterMax)
        /\ SaturatingAdd(transitions[i][c], 1, CounterMax) \in Counters
    BY <2>1, SketchAssumption DEF SaturatingAdd, Counters
  <2>3. CASE p = <<from, h>>
    <3>1. Link(p[1], p[2]) = link
      BY <2>3
    <3>2. n(p) = SaturatingAdd(owned[p], 1, CounterMax)
      BY <2>3
    <3>3. added[i][c] = SaturatingAdd(transitions[i][c], 1, CounterMax)
      BY <1>4, <2>1, <3>1
    <3> HIDE DEF n, c, added
    <3> QED
      BY <2>2, <3>2, <3>3 DEF c
  <2>4. CASE p # <<from, h>>
    <3>1. n(p) = owned[p]
      BY <2>2, <2>4
    <3>2. \/ added[i][c] = SaturatingAdd(transitions[i][c], 1, CounterMax)
          \/ added[i][c] = transitions[i][c]
      BY <1>4, <2>1
    <3> HIDE DEF n, added
    <3> QED
      BY <2>1, <2>2, <3>1, <3>2, SketchAssumption DEF Counters
  <2> QED
    BY <2>3, <2>4
<1>7. \A c \in Columns : /\ noted'[c] \in 0 .. Threshold
                         /\ added[0][c] <= noted'[c] \/ noted'[c] = Threshold
  <2> SUFFICES ASSUME NEW c \in Columns
               PROVE  /\ noted'[c] \in 0 .. Threshold
                      /\ added[0][c] <= noted'[c] \/ noted'[c] = Threshold
    OBVIOUS
  <2>1. /\ transitions[0][c] \in Counters /\ noted[c] \in 0 .. Threshold
        /\ transitions[0][c] <= noted[c] \/ noted[c] = Threshold
        /\ Threshold \in Nat
    BY <1>2, TransitionAssumption, SketchAssumption DEF OracleInv, CellsEarned, Tables, Counters
  <2>2. noted'[c] = IF c = col THEN SaturatingAdd(noted[c], 1, Threshold) ELSE noted[c]
    BY <1>1, <1>2, <1>3
  <2>3. added[0][c] = IF c = col THEN SaturatingAdd(transitions[0][c], 1, CounterMax)
                      ELSE transitions[0][c]
    BY <1>2, <1>4
  <2> HIDE DEF added, col
  <2> QED
    BY <2>1, <2>2, <2>3, SketchAssumption DEF SaturatingAdd, Counters
<1> HIDE DEF n, added, col, link
<1>8. noted' \in [Columns -> 0 .. Threshold]
  <2>1. noted' \in [Columns -> {noted'[c] : c \in Columns}]
    BY <1>1, <1>2
  <2> QED
    BY <1>7, <2>1
<1>9. ASSUME NEW i \in Rows, NEW c \in Columns
      PROVE  /\ transitions'[i][c] = IF end THEN added[i][c] \div 2 ELSE added[i][c]
             /\ added[i][c] \in Counters
  BY <1>1, <1>4, AgedStep DEF Tables
<1>10. OracleTypeOK'
  <2>1. transitions' \in Tables
    BY <1>1, <1>4, AgedStep
  <2>2. total' \in 0 .. AgePeriod - 1
    BY <1>1, <1>2
  <2> QED
    BY <1>1, <2>1, <2>2 DEF OracleTypeOK, Tables
<1>11. owned' \in [Pairs -> Counters]
  <2>1. \A x \in Counters : x \div 2 \in Counters
    BY SketchAssumption DEF Counters
  <2> QED
    BY <1>1, <1>5, <2>1
<1>12. PairsDominate'
  <2> SUFFICES ASSUME NEW p \in Pairs, NEW i \in Rows
               PROVE  owned'[p] <= transitions'[i][Index(Link(p[1], p[2]), i)]
    BY <1>11, <1>10, LinkIsHash, IndexInRange DEF PairsDominate, OracleTypeOK, Counters
  <2> DEFINE c == Index(Link(p[1], p[2]), i)
  <2>1. c \in Columns
    BY LinkIsHash, IndexInRange
  <2>2. n(p) <= added[i][c] /\ n(p) \in Counters /\ added[i][c] \in Counters
    BY <1>5, <1>6, <1>9, <2>1
  <2>3. owned'[p] = IF end THEN n(p) \div 2 ELSE n(p)
    BY <1>1
  <2> QED
    BY <1>9, <2>1, <2>2, <2>3, HalvingMonotone
<1>13. CellsEarned'
  <2> SUFFICES ASSUME NEW c \in Columns
               PROVE  transitions'[0][c] <= noted'[c] \/ noted'[c] = Threshold
    BY DEF CellsEarned
  <2>1. /\ added[0][c] \in Counters
        /\ transitions'[0][c] = IF end THEN added[0][c] \div 2 ELSE added[0][c]
    BY <1>2, <1>9
  <2>2. /\ transitions'[0][c] \in Nat /\ added[0][c] \in Nat
        /\ transitions'[0][c] <= added[0][c]
    BY <2>1, SketchAssumption DEF Counters
  <2>3. /\ noted'[c] \in Nat /\ Threshold \in Nat
        /\ added[0][c] <= noted'[c] \/ noted'[c] = Threshold
    BY <1>7, TransitionAssumption, SketchAssumption DEF Counters
  <2> QED
    BY <2>2, <2>3
<1> QED
  BY <1>1, <1>8, <1>10, <1>11, <1>12, <1>13 DEF OracleInv

LEMMA RecordStep ==
    ASSUME OracleInv, NEW h \in Inputs, Record(h)
    PROVE  OracleInv'
<1>1. CASE lastKeyHash = None
  <2>1. /\ lastKeyHash' = h /\ previous' = h
        /\ UNCHANGED <<transitions, total, since, owned, noted>>
    BY <1>1 DEF Record, Noted, OracleInv
  <2> QED
    BY <2>1 DEF OracleInv, OracleTypeOK, PairsDominate, CellsEarned
<1>2. CASE lastKeyHash # None
  BY <1>2, TransitionStep
<1> QED
  BY <1>1, <1>2

-----------------------------------------------------------------------------
(* The theorems.                                                           *)

\* Counters, last key and age agree with what was recorded, always.
THEOREM OracleInvariance == OracleSpec => []OracleInv
<1>1. OracleInit => OracleInv
  BY ClearedInv DEF OracleInit, Cleared
<1>2. OracleInv /\ [OracleNext]_oracleVars => OracleInv'
  <2> SUFFICES ASSUME OracleInv, [OracleNext]_oracleVars PROVE OracleInv'
    OBVIOUS
  <2>1. ASSUME NEW h \in Inputs, Record(h) PROVE OracleInv'
    BY <2>1, RecordStep
  <2>2. CASE Reset
    <3>1. Cleared'
      BY <2>2 DEF Reset, Forgotten, Cleared, EmptySketch, NoneOwned, NoneNoted
    <3>2. Cleared' => OracleInv'
      BY ClearedInv, PTL
    <3> QED
      BY <3>1, <3>2
  <2>3. CASE UNCHANGED oracleVars
    BY <2>3 DEF oracleVars, OracleInv, OracleTypeOK, PairsDominate, CellsEarned
  <2> QED
    BY <2>1, <2>2, <2>3 DEF OracleNext
<1> QED
  BY <1>1, <1>2, PTL DEF OracleSpec

\* The oracle keeps its type (oracle.rs, MarkovOracle).
THEOREM OracleTypeCorrect == OracleSpec => []OracleTypeOK
<1>1. OracleInv => OracleTypeOK
  BY DEF OracleInv
<1> QED
  BY <1>1, OracleInvariance, PTL

\* No transition reads less than a counter of its own would (oracle.rs,
\* MarkovOracle::record, transition_freq).
THEOREM TransitionsKnown == OracleSpec => []KnowsTransitions
<1>1. OracleInv => KnowsTransitions
  <2> SUFFICES ASSUME OracleInv, NEW p \in Pairs PROVE TransitionFreq(p[1], p[2]) >= owned[p]
    BY DEF KnowsTransitions
  <2>1. /\ transitions \in Tables /\ owned[p] \in Counters
        /\ Link(p[1], p[2]) \in Hashes
    BY LinkIsHash DEF OracleInv, OracleTypeOK, Tables
  <2>2. Plain(transitions) \in Sketches /\ Plain(transitions).table = transitions
    BY <2>1, PlainType
  <2>3. /\ TransitionFreq(p[1], p[2]) \in Counters
        /\ \/ TransitionFreq(p[1], p[2]) = CounterMax
           \/ \E i \in Rows :
                TransitionFreq(p[1], p[2]) = transitions[i][Index(Link(p[1], p[2]), i)]
    BY <2>1, <2>2, EstimateFacts DEF TransitionFreq
  <2> QED
    BY <2>1, <2>3, SketchAssumption DEF OracleInv, PairsDominate, Counters
<1> QED
  BY <1>1, OracleInvariance, PTL

\* Advice is earned by transitions since the last reset (oracle.rs,
\* MarkovOracle::should_prefetch, reset).
THEOREM AdviceEarned == OracleSpec => []AdviceIsEarned
<1>1. OracleInv => AdviceIsEarned
  <2> SUFFICES ASSUME OracleInv, NEW p \in Pairs, ShouldPrefetch(p[1], p[2])
               PROVE  noted[Index(Link(p[1], p[2]), 0)] >= Threshold
    BY DEF AdviceIsEarned
  <2> DEFINE c == Index(Link(p[1], p[2]), 0)
  <2>1. /\ transitions \in Tables /\ Link(p[1], p[2]) \in Hashes
        /\ 0 \in Rows /\ c \in Columns
    BY LinkIsHash, IndexInRange, SketchAssumption DEF OracleInv, OracleTypeOK, Tables, Rows
  <2>2. Plain(transitions) \in Sketches /\ Plain(transitions).table = transitions
    BY <2>1, PlainType
  <2>3. /\ TransitionFreq(p[1], p[2]) \in Counters
        /\ TransitionFreq(p[1], p[2]) <= transitions[0][c]
    BY <2>1, <2>2, EstimateFacts DEF TransitionFreq
  <2>4. /\ transitions[0][c] \in Counters /\ noted[c] \in 0 .. Threshold /\ Threshold \in Nat
        /\ transitions[0][c] <= noted[c] \/ noted[c] = Threshold
    BY <2>1, TransitionAssumption, SketchAssumption DEF OracleInv, Tables, CellsEarned, Counters
  <2>5. TransitionFreq(p[1], p[2]) >= Threshold
    BY DEF ShouldPrefetch
  <2> QED
    BY <2>3, <2>4, <2>5, SketchAssumption DEF Counters
<1> QED
  BY <1>1, OracleInvariance, PTL

=============================================================================
