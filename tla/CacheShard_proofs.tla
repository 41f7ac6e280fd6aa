-------------------------- MODULE CacheShard_proofs --------------------------
(***************************************************************************)
(* Proofs about CacheShard for every set of keys, every capacity the table *)
(* can index, and every size of sketch.  The inductive invariant is the    *)
(* type invariant together with SlabMatchesLookup and WithinCapacity: the  *)
(* slab stays matched only while its length stays below IdxSpace, and the  *)
(* table's slots stay in range only while the slab is matched.             *)
(***************************************************************************)
EXTENDS CacheShard, Counting

-----------------------------------------------------------------------------
(* The sketch.                                                             *)

\* Hashing lands on a column of the row.
LEMMA IndexInRange ==
    ASSUME NEW h \in Hashes, NEW i \in Rows
    PROVE  Index(h, i) \in Columns
<1>1. (h + i * Golden) \in Nat
  BY SketchAssumption DEF Hashes, Rows
<1>2. ((h + i * Golden) % Word) \in Nat
  BY <1>1, SketchAssumption
<1> QED
  BY <1>2, SketchAssumption DEF Index, Columns

LEMMA EmptySketchType == EmptySketch \in Sketches
  BY SketchAssumption DEF EmptySketch, Sketches, Counters

LEMMA AddCountType ==
    ASSUME NEW s \in Sketches, NEW h \in Hashes, NEW n \in Nat
    PROVE  AddCount(s, h, n) \in Sketches
<1>1. \A x \in Counters : SaturatingAdd(x, n, CounterMax) \in Counters
  BY SketchAssumption DEF SaturatingAdd, Counters
<1>2. SaturatingAdd(s.total, n, TotalMax) \in 0 .. TotalMax
  BY SketchAssumption DEF SaturatingAdd, Sketches
<1>3. \A i \in Rows : s.table[i] \in [Columns -> Counters]
  BY DEF Sketches
<1>4. ASSUME NEW i \in Rows
      PROVE  [s.table[i] EXCEPT
                 ![Index(h, i)] = SaturatingAdd(@, n, CounterMax)]
               \in [Columns -> Counters]
  BY <1>1, <1>3, IndexInRange
<1> QED
  BY <1>2, <1>4 DEF AddCount, Sketches

LEMMA HalvedType ==
    ASSUME NEW s \in Sketches
    PROVE  Halved(s) \in Sketches
<1>1. \A i \in Rows, c \in Columns : s.table[i][c] \div 2 \in Counters
  BY SketchAssumption DEF Sketches, Counters
<1>2. s.total \div 2 \in 0 .. TotalMax
  BY SketchAssumption DEF Sketches
<1> QED
  BY <1>1, <1>2 DEF Halved, Sketches

\* Counting a key keeps the sketch a sketch.
LEMMA CountType ==
    ASSUME TypeOK, NEW k \in Keys, Count(k)
    PROVE  sketch' \in Sketches /\ sampleCount' \in 0 .. AgePeriod - 1
<1>1. Hash[k] \in Hashes
  BY ShardAssumption
<1>2. AddCount(sketch, Hash[k], 1) \in Sketches
  BY <1>1, AddCountType DEF TypeOK
<1>3. sketch' \in Sketches
  BY <1>2, HalvedType DEF Count
<1>4. sampleCount' \in 0 .. AgePeriod - 1
  BY ShardAssumption DEF Count, TypeOK
<1> QED
  BY <1>3, <1>4

-----------------------------------------------------------------------------
Lookups == [Keys -> Slots \cup {Absent}]

\* An index the table can hold is kept as it is.
LEMMA AsIdxFits ==
    ASSUME NEW i \in Nat, i < IdxSpace
    PROVE  AsIdx(i) = i /\ i \in Slots /\ i # Absent
<1>1. IdxSpace \in Nat \ {0} /\ Absent \notin Nat
  BY ShardAssumption
<1>2. i % IdxSpace = i
  BY <1>1
<1>3. i \in Slots
  BY <1>1 DEF Slots
<1> QED
  BY <1>1, <1>2, <1>3 DEF AsIdx

\* Giving up slot i shortens the slab by one and moves only the last entry.
LEMMA SwapRemovedType ==
    ASSUME NEW es \in Seq(Entries), NEW i \in 0 .. Len(es) - 1
    PROVE  /\ SwapRemoved(es, i) \in Seq(Entries)
           /\ Len(SwapRemoved(es, i)) = Len(es) - 1
           /\ \A j \in 1 .. Len(es) - 1 :
                SwapRemoved(es, i)[j] = IF j = i + 1 THEN es[Len(es)] ELSE es[j]
<1>1. Len(es) - 1 \in Nat
  OBVIOUS
<1>2. SwapRemoved(es, i) \in [1 .. Len(es) - 1 -> Entries]
  BY DEF SwapRemoved
<1>3. SwapRemoved(es, i) \in Seq(Entries)
  BY <1>1, <1>2
<1>4. Len(SwapRemoved(es, i)) = Len(es) - 1
  BY <1>1, <1>2, <1>3
<1> QED
  BY <1>3, <1>4 DEF SwapRemoved


\* Removing the entry of slot i, as remove and sampled_evict do: the table stays
\* matched to the slab, and the map they stand for loses exactly that key.
LEMMA RemovalStep ==
    ASSUME NEW es \in Seq(Entries), NEW lk \in Lookups,
           Matched(es, lk), Len(es) <= IdxSpace,
           NEW i \in 0 .. Len(es) - 1,
           NEW gone, gone = es[i + 1].key
    PROVE  LET es2 == SwapRemoved(es, i)
               lk2 == Unlisted(lk, es, gone, i)
           IN  /\ es2 \in Seq(Entries) /\ Len(es2) = Len(es) - 1
               /\ lk2 \in Lookups
               /\ lk2[gone] = Absent
               /\ Matched(es2, lk2)
               /\ MapOf(es2, lk2) = [MapOf(es, lk) EXCEPT ![gone] = Absent]
<1> DEFINE n == Len(es)
           moved == es[n].key
           es2 == SwapRemoved(es, i)
           lk2 == Unlisted(lk, es, gone, i)
<1>1. /\ es2 \in Seq(Entries) /\ Len(es2) = n - 1
      /\ \A j \in 1 .. n - 1 : es2[j] = IF j = i + 1 THEN es[n] ELSE es[j]
  BY SwapRemovedType
<1>2. /\ n \in Nat /\ n >= 1
      /\ \A j \in 1 .. n : es[j] \in Entries /\ es[j].key \in Keys
  <2>1. n \in Nat /\ n >= 1 /\ \A j \in 1 .. n : es[j] \in Entries
    OBVIOUS
  <2> QED
    BY <2>1 DEF Entries
<1>3. gone \in Keys /\ moved \in Keys /\ (i # n - 1 => moved # gone)
  <2>1. gone \in Keys /\ moved \in Keys
    BY <1>2
  <2>2. lk[gone] = i /\ lk[moved] = n - 1
    BY <1>2 DEF Matched
  <2> QED
    BY <2>1, <2>2
<1>4. AsIdx(i) = i /\ i \in Slots /\ i # Absent
  <2>1. i \in Nat /\ i < IdxSpace
    BY <1>2, ShardAssumption
  <2> QED
    BY <2>1, AsIdxFits
<1>5. \A k \in Keys :
        lk2[k] = IF k = gone THEN Absent
                 ELSE IF k = moved /\ i # n - 1 THEN i ELSE lk[k]
  BY <1>3, <1>4 DEF Unlisted, Lookups
<1>6. lk2 \in Lookups
  BY <1>3, <1>4 DEF Unlisted, Lookups
<1> HIDE DEF es2, lk2
<1>7. \A k \in Keys : lk2[k] # Absent =>
        /\ lk[k] # Absent
        /\ lk2[k] \in 0 .. n - 2
        /\ es2[lk2[k] + 1] = es[lk[k] + 1]
  <2> SUFFICES ASSUME NEW k \in Keys, lk2[k] # Absent
               PROVE  /\ lk[k] # Absent
                      /\ lk2[k] \in 0 .. n - 2
                      /\ es2[lk2[k] + 1] = es[lk[k] + 1]
    OBVIOUS
  <2>1. k # gone
    BY <1>5
  <2>2. lk[moved] = n - 1 /\ lk[gone] = i
    BY <1>2 DEF Matched
  <2>3. CASE k = moved /\ i # n - 1
    <3>1. lk2[k] = i /\ lk[k] = n - 1
      BY <1>5, <2>1, <2>2, <2>3
    <3>2. es2[i + 1] = es[n]
      BY <1>1, <1>2, <2>3
    <3>3. lk[k] # Absent
      BY <3>1, <1>2, ShardAssumption
    <3> QED
      BY <3>1, <3>2, <3>3, <1>2, <2>3
  <2>4. CASE ~(k = moved /\ i # n - 1)
    <3>1. lk2[k] = lk[k]
      BY <1>5, <2>1, <2>4
    <3>2. lk[k] \in 0 .. n - 1 /\ es[lk[k] + 1].key = k
      BY <3>1 DEF Matched
    <3>3. lk[k] # i /\ lk[k] # n - 1
      BY <3>2, <2>1, <2>4, <1>2
    <3>4. lk2[k] \in 0 .. n - 2
      <4>1. \A x, m \in Nat : x \in 0 .. m - 1 /\ x # m - 1 => x \in 0 .. m - 2
        OBVIOUS
      <4>2. n \in Nat /\ lk[k] \in Nat
        BY <3>2, <1>2
      <4> HIDE DEF n
      <4> QED
        BY <3>1, <3>2, <3>3, <4>1, <4>2
    <3>5. lk[k] + 1 \in 1 .. n - 1 /\ lk[k] + 1 # i + 1
      BY <3>2, <3>3, <1>2
    <3> QED
      BY <3>1, <3>4, <3>5, <1>1
  <2> QED
    BY <2>3, <2>4
<1>8. \A k \in Keys : lk[k] # Absent /\ k # gone => lk2[k] # Absent
  BY <1>4, <1>5
<1>9. Matched(es2, lk2)
  <2>1. \A k \in Keys : lk2[k] # Absent =>
          lk2[k] \in 0 .. Len(es2) - 1 /\ es2[lk2[k] + 1].key = k
    <3>1. Len(es2) - 1 = n - 2
      BY <1>1, <1>2
    <3>2. \A k \in Keys : lk[k] # Absent => es[lk[k] + 1].key = k
      BY DEF Matched
    <3> QED
      BY <3>1, <3>2, <1>7
  <2>2. ASSUME NEW j \in 1 .. Len(es2)
        PROVE  lk2[es2[j].key] = j - 1
    <3>1. j \in 1 .. n - 1
      BY <1>1, <1>2
    <3>2. CASE j = i + 1
      <4>1. es2[j] = es[n] /\ i # n - 1
        BY <1>1, <1>2, <3>1, <3>2
      <4>2. lk2[moved] = i
        BY <4>1, <1>3, <1>5
      <4>3. j - 1 = i
        BY <3>2
      <4> QED
        BY <4>1, <4>2, <4>3
    <3>3. CASE j # i + 1
      <4>1. es2[j] = es[j]
        BY <1>1, <3>1, <3>3
      <4>2. lk[es[j].key] = j - 1 /\ es[j].key \in Keys
        BY <3>1, <1>2 DEF Matched
      <4>3. lk[gone] = i /\ lk[moved] = n - 1
        BY <1>2 DEF Matched
      <4>4. es[j].key # gone /\ es[j].key # moved
        BY <3>1, <3>3, <4>2, <4>3, <1>2
      <4> QED
        BY <4>1, <4>2, <4>4, <1>5
    <3> QED
      BY <3>2, <3>3
  <2> QED
    BY <2>1, <2>2 DEF Matched
<1>10. MapOf(es2, lk2) = [MapOf(es, lk) EXCEPT ![gone] = Absent]
  <2>1. ASSUME NEW k \in Keys
        PROVE  MapOf(es2, lk2)[k]
                 = [MapOf(es, lk) EXCEPT ![gone] = Absent][k]
    BY <1>3, <1>5, <1>7, <1>8 DEF MapOf
  <2> QED
    BY <2>1, <1>3 DEF MapOf
<1> QED
  BY <1>1, <1>3, <1>5, <1>6, <1>9, <1>10 DEF es2, lk2

\* Appending an unlisted key, as put does when there is room.
LEMMA PushStep ==
    ASSUME NEW es \in Seq(Entries), NEW lk \in Lookups,
           Matched(es, lk), Len(es) < IdxSpace,
           NEW k \in Keys, NEW v \in Values, lk[k] = Absent
    PROVE  LET es2 == Pushed(es, k, v)
               lk2 == Listed(lk, es, k)
           IN  /\ es2 \in Seq(Entries) /\ Len(es2) = Len(es) + 1
               /\ lk2 \in Lookups
               /\ Matched(es2, lk2)
               /\ MapOf(es2, lk2) = [MapOf(es, lk) EXCEPT ![k] = v]
<1> DEFINE n == Len(es)
           e == NewEntry(k, v)
           es2 == Pushed(es, k, v)
           lk2 == Listed(lk, es, k)
<1>1. e \in Entries /\ e.key = k /\ e.value = v
  BY ShardAssumption DEF NewEntry, Entries
<1>2. /\ n \in Nat /\ es2 \in Seq(Entries) /\ Len(es2) = n + 1
      /\ es2[n + 1] = e
      /\ \A j \in 1 .. n : es2[j] = es[j] /\ es[j].key \in Keys
  <2>1. /\ n \in Nat /\ es2 \in Seq(Entries) /\ Len(es2) = n + 1
        /\ es2[n + 1] = e
        /\ \A j \in 1 .. n : es2[j] = es[j] /\ es[j] \in Entries
    BY <1>1 DEF Pushed
  <2> QED
    BY <2>1 DEF Entries
<1>3. AsIdx(n) = n /\ n \in Slots /\ n # Absent
  BY <1>2, AsIdxFits
<1>4. lk2 \in Lookups
  BY <1>3 DEF Listed, Lookups
<1>5. \A j \in Keys : lk2[j] = IF j = k THEN n ELSE lk[j]
  BY <1>3 DEF Listed, Lookups
<1> HIDE DEF es2, lk2
<1>6. \A j \in Keys : j # k /\ lk[j] # Absent =>
        lk[j] \in 0 .. n - 1 /\ es2[lk[j] + 1] = es[lk[j] + 1]
  <2> SUFFICES ASSUME NEW j \in Keys, lk[j] # Absent
               PROVE  lk[j] \in 0 .. n - 1 /\ es2[lk[j] + 1] = es[lk[j] + 1]
    OBVIOUS
  <2>1. lk[j] \in 0 .. n - 1
    BY DEF Matched
  <2> HIDE DEF n
  <2>2. lk[j] + 1 \in 1 .. n
    BY <2>1, <1>2
  <2> QED
    BY <2>1, <2>2, <1>2
<1>7. Matched(es2, lk2)
  <2>1. \A j \in Keys : lk2[j] # Absent =>
          lk2[j] \in 0 .. Len(es2) - 1 /\ es2[lk2[j] + 1].key = j
    BY <1>1, <1>2, <1>5, <1>6 DEF Matched
  <2>2. ASSUME NEW j \in 1 .. n
        PROVE  lk2[es2[j].key] = j - 1
    <3>1. lk[es[j].key] = j - 1 /\ es[j].key \in Keys /\ j - 1 # Absent
      BY <1>2, ShardAssumption DEF Matched
    <3>2. es[j].key # k
      BY <3>1
    <3> QED
      BY <1>2, <1>5, <3>1, <3>2
  <2>3. lk2[es2[n + 1].key] = n
    BY <1>1, <1>2, <1>5
  <2> QED
    BY <2>1, <2>2, <2>3, <1>2 DEF Matched
<1>8. MapOf(es2, lk2) = [MapOf(es, lk) EXCEPT ![k] = v]
  <2>1. ASSUME NEW j \in Keys
        PROVE  MapOf(es2, lk2)[j] = [MapOf(es, lk) EXCEPT ![k] = v][j]
    <3>1. CASE j = k
      BY <3>1, <1>1, <1>2, <1>3, <1>5 DEF MapOf
    <3>2. CASE j # k
      BY <3>2, <1>5, <1>6 DEF MapOf
    <3> QED
      BY <3>1, <3>2
  <2> QED
    BY <2>1 DEF MapOf
<1> QED
  BY <1>2, <1>4, <1>7, <1>8 DEF es2, lk2


\* Overwriting the value of a listed key, as put does.
LEMMA UpdateStep ==
    ASSUME NEW es \in Seq(Entries), NEW lk \in Lookups, Matched(es, lk),
           NEW k \in Keys, NEW v \in Values, lk[k] # Absent
    PROVE  LET es2 == Overwritten(es, lk[k], v)
           IN  /\ es2 \in Seq(Entries) /\ Len(es2) = Len(es)
               /\ \A j \in 1 .. Len(es) :
                    es2[j].key = es[j].key /\ es2[j].hash = es[j].hash
               /\ Matched(es2, lk)
               /\ MapOf(es2, lk) = [MapOf(es, lk) EXCEPT ![k] = v]
<1> DEFINE n == Len(es)
           at == lk[k] + 1
           es2 == Overwritten(es, lk[k], v)
<1>1. n \in Nat /\ at \in 1 .. n /\ es[at].key = k
  BY DEF Matched
<1>2. \A j \in 1 .. n : es[j] \in Entries
  OBVIOUS
<1>3. [es[at] EXCEPT !.value = v] \in Entries
  BY <1>1, <1>2 DEF Entries
<1>4. es2 = [es EXCEPT ![at] = [es[at] EXCEPT !.value = v]]
  BY DEF Overwritten
<1> HIDE DEF es2
<1>5. es2 \in Seq(Entries) /\ Len(es2) = n
  BY <1>1, <1>3, <1>4
<1>6. \A j \in 1 .. n :
        es2[j] = IF j = at THEN [es[at] EXCEPT !.value = v] ELSE es[j]
  BY <1>1, <1>4
<1>7. \A j \in 1 .. n : es2[j].key = es[j].key /\ es2[j].hash = es[j].hash
  BY <1>2, <1>6 DEF Entries
<1>8. Matched(es2, lk)
  <2>1. ASSUME NEW j \in Keys, lk[j] # Absent
        PROVE  lk[j] \in 0 .. Len(es2) - 1 /\ es2[lk[j] + 1].key = j
    <3>1. lk[j] \in 0 .. n - 1 /\ es[lk[j] + 1].key = j
      BY <2>1 DEF Matched
    <3>2. lk[j] + 1 \in 1 .. n
      BY <3>1, <1>1
    <3> QED
      BY <3>1, <3>2, <1>5, <1>7
  <2>2. \A j \in 1 .. Len(es2) : lk[es2[j].key] = j - 1
    BY <1>5, <1>7 DEF Matched
  <2> QED
    BY <2>1, <2>2 DEF Matched
<1>9. ASSUME NEW j \in Keys
      PROVE  MapOf(es2, lk)[j] = [MapOf(es, lk) EXCEPT ![k] = v][j]
  <2>1. CASE j = k
    <3>1. es2[at].value = v
      BY <1>1, <1>2, <1>6 DEF Entries
    <3> QED
      BY <2>1, <3>1 DEF MapOf
  <2>2. CASE j # k /\ lk[j] # Absent
    <3>1. lk[j] + 1 \in 1 .. n /\ es[lk[j] + 1].key = j
      BY <2>2, <1>1 DEF Matched
    <3>2. es2[lk[j] + 1] = es[lk[j] + 1]
      BY <3>1, <2>2, <1>1, <1>6
    <3>3. MapOf(es2, lk)[j] = es2[lk[j] + 1].value
      BY <2>2 DEF MapOf
    <3>4. MapOf(es, lk)[j] = es[lk[j] + 1].value
      BY <2>2 DEF MapOf
    <3>5. [MapOf(es, lk) EXCEPT ![k] = v][j] = MapOf(es, lk)[j]
      BY <2>2 DEF MapOf
    <3> QED
      BY <3>2, <3>3, <3>4, <3>5
  <2>3. CASE j # k /\ lk[j] = Absent
    BY <2>3 DEF MapOf
  <2> QED
    BY <2>1, <2>2, <2>3
<1>10. MapOf(es2, lk) = [MapOf(es, lk) EXCEPT ![k] = v]
  BY <1>9 DEF MapOf
<1> QED
  BY <1>5, <1>7, <1>8, <1>10 DEF es2

\* The empty slab and the empty table stand for the empty map.
LEMMA EmptyMatched ==
    /\ <<>> \in Seq(Entries)
    /\ [k \in Keys |-> Absent] \in Lookups
    /\ Matched(<<>>, [k \in Keys |-> Absent])
    /\ MapOf(<<>>, [k \in Keys |-> Absent]) = [k \in Keys |-> Absent]
  BY DEF Lookups, Matched, MapOf

\* A matched shard holds as many keys as it has entries: the slab's keys are in
\* bijection with the slots.
LEMMA HeldIsLength ==
    ASSUME NEW es \in Seq(Entries), NEW lk \in Lookups, Matched(es, lk)
    PROVE  Map!HeldCount(MapOf(es, lk)) = Len(es)
<1> DEFINE n == Len(es)
           held == Map!Held(MapOf(es, lk))
           f == [j \in 1 .. n |-> es[j].key]
<1>1. n \in Nat /\ \A j \in 1 .. n : es[j] \in Entries
  OBVIOUS
<1>2. held = {k \in Keys : lk[k] # Absent}
  <2>1. ASSUME NEW k \in Keys, lk[k] # Absent
        PROVE  es[lk[k] + 1].value # Absent
    <3>1. lk[k] + 1 \in 1 .. n
      BY <2>1, <1>1 DEF Matched
    <3>2. es[lk[k] + 1].value \in Values
      BY <3>1, <1>1 DEF Entries
    <3> QED
      BY <3>2, ShardAssumption
  <2> QED
    BY <2>1 DEF MapOf, Map!Held
<1>3. \A j \in 1 .. n : f[j] \in held /\ lk[f[j]] = j - 1
  <2>1. \A j \in 1 .. n : es[j].key \in Keys
    BY <1>1 DEF Entries
  <2>2. \A j \in 1 .. n : lk[es[j].key] = j - 1 /\ j - 1 # Absent
    BY <1>1, ShardAssumption DEF Matched
  <2> QED
    BY <2>1, <2>2, <1>2
<1>4. \A k \in held : lk[k] + 1 \in 1 .. n /\ f[lk[k] + 1] = k
  BY <1>1, <1>2 DEF Matched
<1>5. f \in Bijection(1 .. n, held)
  <2>1. f \in [1 .. n -> held]
    BY <1>3
  <2>2. ASSUME NEW i \in 1 .. n, NEW j \in 1 .. n, f[i] = f[j]
        PROVE  i = j
    BY <2>2, <1>3
  <2>3. \A k \in held : \E j \in 1 .. n : f[j] = k
    BY <1>4
  <2> HIDE DEF f, held
  <2> QED
    BY <2>1, <2>2, <2>3 DEF Bijection, Injection, Surjection, IsInjective
<1>6. Cardinality(held) = Cardinality(1 .. n)
  BY <1>1, <1>5, FS_Interval, FS_Bijection DEF ExistsBijection
<1>7. Cardinality(1 .. n) = n
  <2> HIDE DEF n
  <2>1. 1 \in Int /\ n \in Int
    BY <1>1
  <2>2. Cardinality(1 .. n) = IF 1 > n THEN 0 ELSE n - 1 + 1
    BY <2>1, FS_Interval
  <2> QED
    BY <1>1, <2>2
<1> QED
  BY <1>6, <1>7 DEF Map!HeldCount, Map!Cardinality, Cardinality


-----------------------------------------------------------------------------
\* The inductive invariant.
Inv ==
    /\ TypeOK
    /\ SlabMatchesLookup
    /\ HashFollowsKey
    /\ WithinCapacity
    /\ AgingKeepsUp

\* What Inv says of slab, table and capacity, in the lemmas' terms.
LEMMA InvFacts ==
    ASSUME Inv, IdxCoversCapacity
    PROVE  /\ entries \in Seq(Entries) /\ lookup \in Lookups
           /\ Matched(entries, lookup)
           /\ Len(entries) \in Nat /\ capacity \in Nat /\ IdxSpace \in Nat
           /\ Len(entries) <= capacity /\ capacity <= IdxSpace
           /\ \A i \in 1 .. Len(entries) :
                entries[i].hash = Hash[entries[i].key]
<1>1. capacity \in Capacities /\ capacity \in Nat /\ capacity <= IdxSpace
  BY ShardAssumption DEF Inv, TypeOK, IdxCoversCapacity
<1> QED
  BY <1>1, ShardAssumption
     DEF Inv, TypeOK, SlabMatchesLookup, HashFollowsKey, WithinCapacity, Lookups

\* The invariant after a step, from the parts the step computes.
LEMMA InvNext ==
    ASSUME Inv,
           entries' \in Seq(Entries), lookup' \in Lookups,
           Matched(entries', lookup'),
           \A i \in 1 .. Len(entries') : entries'[i].hash = Hash[entries'[i].key],
           Len(entries') <= capacity, capacity' = capacity,
           sketch' \in Sketches, sampleCount' \in 0 .. AgePeriod - 1,
           WithinAging(sketch', sampleCount')
    PROVE  Inv'
  BY DEF Inv, TypeOK, SlabMatchesLookup, HashFollowsKey, WithinCapacity,
         AgingKeepsUp, Lookups

\* What a row's counters come to.
RowSum(s, i) == Total(s.table[i], Columns)

LEMMA RowSumFacts ==
    ASSUME NEW s \in Sketches, NEW i \in Rows
    PROVE  /\ IsFiniteSet(Columns) /\ s.table[i] \in [Columns -> Nat]
           /\ RowSum(s, i) \in Nat /\ FoldFunction(+, 0, s.table[i]) = RowSum(s, i)
<1>1. IsFiniteSet(Columns)
  BY SketchAssumption, FS_Interval DEF Columns
<1>2. s.table[i] \in [Columns -> Counters] /\ Counters \subseteq Nat
  BY DEF Sketches, Counters
<1>3. s.table[i] \in [Columns -> Nat] /\ DOMAIN s.table[i] = Columns
  BY <1>2
<1>4. RowSum(s, i) \in Nat
  BY <1>1, <1>3, SumMonotone DEF RowSum
<1>5. FoldFunction(+, 0, s.table[i]) = RowSum(s, i)
  BY <1>3 DEF FoldFunction, Total, RowSum
<1> QED
  BY <1>1, <1>3, <1>4, <1>5

\* A row that is counted in grows by one at most.
LEMMA AddGrows ==
    ASSUME NEW s \in Sketches, NEW h \in Hashes, NEW i \in Rows
    PROVE  RowSum(AddCount(s, h, 1), i) <= RowSum(s, i) + 1
<1> DEFINE t == AddCount(s, h, 1)
           f == s.table[i]
           g == t.table[i]
           x == Index(h, i)
<1>1. t \in Sketches /\ x \in Columns
  BY AddCountType, IndexInRange
<1>2. IsFiniteSet(Columns) /\ f \in [Columns -> Nat] /\ g \in [Columns -> Nat]
  <2> HIDE DEF t
  <2> QED
    BY <1>1, RowSumFacts
<1>3. g = [f EXCEPT ![x] = SaturatingAdd(f[x], 1, CounterMax)]
  BY DEF AddCount
<1>4. /\ g[x] = SaturatingAdd(f[x], 1, CounterMax)
      /\ \A y \in Columns \ {x} : g[y] = f[y]
  <2> HIDE DEF g, f, x
  <2> QED
    BY <1>1, <1>2, <1>3
<1>5. RowSum(s, i) = Total(f, Columns) /\ RowSum(t, i) = Total(g, Columns)
  BY DEF RowSum
<1> HIDE DEF f, g, x, t
<1>6. f[x] \in Nat /\ g[x] \in Nat /\ g[x] <= f[x] + 1
  BY <1>1, <1>2, <1>4, SketchAssumption DEF SaturatingAdd
<1>7. /\ Total(f, Columns) \in Nat /\ Total(g, Columns) \in Nat
      /\ Total(g, Columns) + f[x] = Total(f, Columns) + g[x]
  BY <1>1, <1>2, <1>4, SumChangeOne
<1>8. Total(g, Columns) <= Total(f, Columns) + 1
  BY <1>6, <1>7
<1> QED
  BY <1>5, <1>8 DEF t

\* Halving halves what a row comes to.
LEMMA HalvedHalves ==
    ASSUME NEW s \in Sketches, NEW i \in Rows
    PROVE  2 * RowSum(Halved(s), i) <= RowSum(s, i)
<1> DEFINE f == s.table[i]
           g == Halved(s).table[i]
<1>1. IsFiniteSet(Columns) /\ f \in [Columns -> Nat]
  BY RowSumFacts
<1>2. \A c \in Columns : g[c] = f[c] \div 2
  BY DEF Halved
<1>3. RowSum(s, i) = Total(f, Columns) /\ RowSum(Halved(s), i) = Total(g, Columns)
  BY DEF RowSum
<1> HIDE DEF f, g
<1>4. \A c \in Columns : f[c] \in Nat /\ g[c] \in Nat /\ 2 * g[c] <= f[c]
  BY <1>1, <1>2
<1> QED
  BY <1>1, <1>3, <1>4, SumHalf

\* The bound in the terms of the sums.
LEMMA WithinSums ==
    ASSUME NEW s \in Sketches, NEW n \in Nat
    PROVE  WithinAging(s, n) <=> /\ s.total <= AgePeriod + n
                                 /\ \A i \in Rows : RowSum(s, i) <= AgePeriod + n
  BY RowSumFacts DEF WithinAging

LEMMA EmptyWithin == WithinAging(EmptySketch, 0)
<1>1. EmptySketch \in Sketches /\ EmptySketch.total = 0 /\ AgePeriod \in Nat
  BY EmptySketchType, ShardAssumption DEF EmptySketch
<1>2. ASSUME NEW i \in Rows
      PROVE  RowSum(EmptySketch, i) <= AgePeriod
  <2> DEFINE f == EmptySketch.table[i]
  <2>1. \A c \in Columns : f[c] = 0
    BY DEF EmptySketch
  <2>2. IsFiniteSet(Columns) /\ RowSum(EmptySketch, i) \in Nat
    BY <1>1, RowSumFacts
  <2>3. RowSum(EmptySketch, i) = Total(f, Columns)
    BY DEF RowSum
  <2> HIDE DEF f
  <2>4. \A c \in Columns : f[c] \in Nat /\ 2 * f[c] <= f[c]
    BY <2>1
  <2>5. 2 * Total(f, Columns) <= Total(f, Columns)
    BY <2>2, <2>4, SumHalf
  <2> QED
    BY <1>1, <2>2, <2>3, <2>5
<1> QED
  BY <1>1, <1>2, WithinSums

\* Counting an access keeps the sketch within its aging bound.
LEMMA CountStep ==
    ASSUME Inv, NEW k \in Keys, Count(k)
    PROVE  /\ sketch' \in Sketches
           /\ sampleCount' \in 0 .. AgePeriod - 1
           /\ WithinAging(sketch', sampleCount')
<1> DEFINE added == AddCount(sketch, Hash[k], 1)
<1>1. sketch' \in Sketches /\ sampleCount' \in 0 .. AgePeriod - 1
  BY CountType DEF Inv
<1>2. /\ sketch.total \in Nat /\ sampleCount \in 0 .. AgePeriod - 1
      /\ AgePeriod \in Nat \ {0} /\ sketch \in Sketches
  BY SketchAssumption, ShardAssumption DEF Inv, TypeOK, Sketches
<1>3. /\ sketch.total <= AgePeriod + sampleCount
      /\ \A i \in Rows : RowSum(sketch, i) <= AgePeriod + sampleCount
  <2>1. sampleCount \in Nat
    BY <1>2
  <2> QED
    BY <1>2, <2>1, WithinSums DEF Inv, AgingKeepsUp
<1>4. Hash[k] \in Hashes
  BY ShardAssumption
<1>5. added \in Sketches
  BY <1>2, <1>4, AddCountType
<1>6. added.total \in Nat /\ added.total <= sketch.total + 1
  BY <1>2, SketchAssumption DEF AddCount, SaturatingAdd
<1>7. \A i \in Rows : /\ RowSum(added, i) \in Nat /\ RowSum(sketch, i) \in Nat
                      /\ RowSum(added, i) <= RowSum(sketch, i) + 1
  <2>1. \A i \in Rows : RowSum(added, i) <= RowSum(sketch, i) + 1
    BY <1>2, <1>4, AddGrows
  <2> HIDE DEF added
  <2> QED
    BY <1>2, <1>5, <2>1, RowSumFacts
<1>8. CASE sampleCount + 1 >= AgePeriod
  <2>1. sketch' = Halved(added) /\ sampleCount' = 0
    BY <1>8 DEF Count
  <2>2. sketch'.total = added.total \div 2
    BY <2>1 DEF Halved
  <2> HIDE DEF added
  <2>3. sketch'.total <= AgePeriod
    BY <1>2, <1>3, <1>6, <2>2
  <2>4. ASSUME NEW i \in Rows
        PROVE  RowSum(sketch', i) <= AgePeriod
    <3>1. 2 * RowSum(sketch', i) <= RowSum(added, i) /\ RowSum(sketch', i) \in Nat
      BY <1>1, <1>5, <2>1, HalvedHalves, RowSumFacts
    <3>2. RowSum(added, i) \in Nat /\ RowSum(added, i) <= 2 * AgePeriod
      BY <1>2, <1>3, <1>7
    <3> QED
      BY <1>2, <3>1, <3>2
  <2>5. WithinAging(sketch', 0)
    BY <1>1, <1>2, <2>3, <2>4, WithinSums
  <2> QED
    BY <1>1, <2>1, <2>5
<1>9. CASE ~(sampleCount + 1 >= AgePeriod)
  <2>1. sketch' = added /\ sampleCount' = sampleCount + 1 /\ sampleCount' \in Nat
    BY <1>2, <1>9 DEF Count
  <2> HIDE DEF added
  <2>2. added.total <= AgePeriod + sampleCount'
    BY <1>2, <1>3, <1>6, <2>1
  <2>3. \A i \in Rows : RowSum(added, i) <= AgePeriod + sampleCount'
    BY <1>2, <1>3, <1>7, <2>1
  <2>4. WithinAging(added, sampleCount')
    BY <1>5, <2>1, <2>2, <2>3, WithinSums
  <2> QED
    BY <1>1, <2>1, <2>4
<1> QED
  BY <1>8, <1>9

\* An operation that leaves slab and table alone leaves the map alone.
LEMMA ReadStep ==
    ASSUME Inv, IdxCoversCapacity,
           UNCHANGED <<entries, lookup, capacity>>,
           sketch' \in Sketches, sampleCount' \in 0 .. AgePeriod - 1,
           WithinAging(sketch', sampleCount')
    PROVE  Inv' /\ Contents' = Contents
<1>1. Contents' = Contents
  BY DEF Contents
<1>2. /\ entries' \in Seq(Entries) /\ lookup' \in Lookups
      /\ Matched(entries', lookup') /\ Len(entries') <= capacity
      /\ \A i \in 1 .. Len(entries') : entries'[i].hash = Hash[entries'[i].key]
  BY InvFacts
<1> QED
  BY <1>1, <1>2, InvNext

LEMMA QuietStep ==
    ASSUME Inv, IdxCoversCapacity,
           UNCHANGED <<entries, lookup, sketch, sampleCount, capacity>>
    PROVE  Inv' /\ Contents' = Contents
<1>1. /\ sketch' \in Sketches /\ sampleCount' \in 0 .. AgePeriod - 1
      /\ WithinAging(sketch', sampleCount')
  BY DEF Inv, TypeOK, AgingKeepsUp
<1> QED
  BY <1>1, ReadStep

LEMMA ContentsAt ==
    ASSUME NEW k \in Keys
    PROVE  /\ Contents[k] = IF Present(k) THEN EntryOf(k).value ELSE Absent
           /\ (Inv /\ Present(k)) => Contents[k] \in Values \ {Absent}
<1>1. Contents[k] = IF Present(k) THEN EntryOf(k).value ELSE Absent
  BY DEF Contents, MapOf, Present, EntryOf
<1>2. ASSUME Inv, Present(k)
      PROVE  EntryOf(k).value \in Values
  <2>1. lookup[k] + 1 \in 1 .. Len(entries) /\ entries \in Seq(Entries)
    BY <1>2 DEF Inv, TypeOK, SlabMatchesLookup, Matched, Present
  <2>2. entries[lookup[k] + 1] \in Entries
    BY <2>1
  <2> QED
    BY <2>2 DEF EntryOf, Entries
<1> QED
  BY <1>1, <1>2, ShardAssumption


-----------------------------------------------------------------------------
(* Each operation keeps the invariant and is a step of the lossy map.      *)

LEMMA GetRefines ==
    ASSUME Inv, IdxCoversCapacity, NEW k \in Keys, Get(k)
    PROVE  Inv' /\ Map!Get(k)
<1>1. Inv' /\ Contents' = Contents
  BY CountStep, ReadStep DEF Get
<1>2. ret' = [op |-> "get", key |-> k, out |-> Contents[k]]
  BY ContentsAt DEF Get
<1> QED
  BY <1>1, <1>2 DEF Get, Map!Get

LEMMA ContainsRefines ==
    ASSUME Inv, IdxCoversCapacity, NEW k \in Keys, Contains(k)
    PROVE  Inv' /\ Map!Contains(k)
<1>1. Inv' /\ Contents' = Contents
  BY QuietStep DEF Contains
<1>2. Present(k) <=> k \in Map!Held(Contents)
  BY ContentsAt DEF Map!Held
<1>3. Present(k) = (k \in Map!Held(Contents))
  BY <1>2, SMT DEF Present
<1> QED
  BY <1>1, <1>3, Zenon DEF Contains, Map!Contains

LEMMA SizeRefines ==
    ASSUME Inv, IdxCoversCapacity, Size
    PROVE  Inv' /\ Map!Size
<1>1. Inv' /\ Contents' = Contents
  BY QuietStep DEF Size
<1>2. Map!HeldCount(Contents) = Len(entries)
  BY InvFacts, HeldIsLength DEF Contents
<1> QED
  BY <1>1, <1>2 DEF Size, Map!Size

LEMMA IsEmptyRefines ==
    ASSUME Inv, IdxCoversCapacity, IsEmpty
    PROVE  Inv' /\ Map!IsEmpty
<1>1. Inv' /\ Contents' = Contents
  BY QuietStep DEF IsEmpty
<1>2. (entries = <<>>) = (Map!Held(Contents) = {})
  <2>1. ASSUME NEW k \in Keys, Present(k)
        PROVE  entries # <<>>
    BY <2>1, InvFacts DEF Matched, Present
  <2>2. ASSUME entries # <<>>
        PROVE  \E k \in Keys : Present(k)
    <3>1. entries[1] \in Entries /\ 1 \in 1 .. Len(entries)
      BY <2>2, InvFacts
    <3>2. lookup[entries[1].key] = 0 /\ entries[1].key \in Keys
      BY <3>1, InvFacts DEF Matched, Entries
    <3> QED
      BY <3>2, ShardAssumption DEF Present
  <2> QED
    BY <2>1, <2>2, ContentsAt DEF Map!Held
<1> QED
  BY <1>1, <1>2 DEF IsEmpty, Map!IsEmpty

LEMMA ClearRefines ==
    ASSUME Inv, IdxCoversCapacity, Clear
    PROVE  Inv' /\ Map!Clear
<1>1. Contents' = [k \in Keys |-> Absent]
  BY EmptyMatched DEF Clear, Contents
<1>2. Inv'
  <2>1. EmptySketch \in Sketches /\ WithinAging(EmptySketch, 0)
    BY EmptySketchType, EmptyWithin
  <2>2. /\ AgePeriod \in Nat \ {0}
        /\ 0 <= capacity
    BY InvFacts, ShardAssumption
  <2> QED
    BY <2>1, <2>2, EmptyMatched, InvNext DEF Clear
<1> QED
  BY <1>1, <1>2 DEF Clear, Map!Clear, Map!EmptyMap

LEMMA RemoveMissRefines ==
    ASSUME Inv, IdxCoversCapacity, NEW k \in Keys, RemoveMiss(k)
    PROVE  Inv' /\ Map!Remove(k)
<1>1. Inv' /\ Contents' = Contents
  BY QuietStep DEF RemoveMiss
<1>2. Contents[k] = Absent
  BY ContentsAt DEF RemoveMiss
<1>3. Contents = [Contents EXCEPT ![k] = Absent]
  BY <1>2 DEF Contents, MapOf
<1> QED
  BY <1>1, <1>2, <1>3 DEF RemoveMiss, Map!Remove, Map!Forget

LEMMA RemoveHitRefines ==
    ASSUME Inv, IdxCoversCapacity, NEW k \in Keys, RemoveHit(k)
    PROVE  Inv' /\ Map!Remove(k)
<1> DEFINE i == lookup[k]
<1>1. i \in 0 .. Len(entries) - 1 /\ entries[i + 1].key = k
  BY InvFacts DEF RemoveHit, Present, Matched
<1>2. Len(entries) <= IdxSpace
  BY InvFacts
<1>3. /\ entries' = SwapRemoved(entries, i)
      /\ lookup' = Unlisted(lookup, entries, k, i)
  BY DEF RemoveHit
<1>4. /\ entries' \in Seq(Entries) /\ Len(entries') = Len(entries) - 1
      /\ lookup' \in Lookups
      /\ Matched(entries', lookup')
      /\ MapOf(entries', lookup') = [MapOf(entries, lookup) EXCEPT ![k] = Absent]
  <2>1. entries \in Seq(Entries) /\ lookup \in Lookups /\ Matched(entries, lookup)
    BY InvFacts
  <2> HIDE DEF i
  <2> QED
    BY <1>1, <1>2, <1>3, <2>1, RemovalStep
<1>5. \A j \in 1 .. Len(entries') : entries'[j].hash = Hash[entries'[j].key]
  <2>1. entries \in Seq(Entries) /\ Len(entries) \in Nat
    BY InvFacts
  <2>2. \A j \in 1 .. Len(entries') :
          entries'[j] = IF j = i + 1 THEN entries[Len(entries)] ELSE entries[j]
    <3>1. 1 .. Len(entries') = 1 .. Len(entries) - 1
      BY <1>4
    <3> HIDE DEF i
    <3> QED
      BY <1>3, <3>1 DEF SwapRemoved
  <2>3. \A j \in 1 .. Len(entries') : \E m \in 1 .. Len(entries) :
          entries'[j] = entries[m]
    <3> SUFFICES ASSUME NEW j \in 1 .. Len(entries')
                 PROVE  \E m \in 1 .. Len(entries) : entries'[j] = entries[m]
      OBVIOUS
    <3>1. j \in 1 .. Len(entries) /\ Len(entries) \in 1 .. Len(entries)
      BY <1>4, <2>1
    <3> HIDE DEF i
    <3>2. CASE j = i + 1
      BY <2>2, <3>1, <3>2
    <3>3. CASE j # i + 1
      BY <2>2, <3>1, <3>3
    <3> QED
      BY <3>2, <3>3
  <2> QED
    BY <2>3, InvFacts
<1>6. Inv'
  <2>1. /\ sketch' \in Sketches /\ sampleCount' \in 0 .. AgePeriod - 1
        /\ WithinAging(sketch', sampleCount')
        /\ capacity' = capacity
    BY DEF RemoveHit, Inv, TypeOK, AgingKeepsUp
  <2>2. Len(entries') <= capacity
    BY <1>4, InvFacts
  <2> QED
    BY <1>4, <1>5, <2>1, <2>2, InvNext
<1>7. Contents' = [Contents EXCEPT ![k] = Absent]
  BY <1>4 DEF Contents
<1>8. ret' = [op |-> "remove", key |-> k, out |-> Contents[k]]
  BY ContentsAt DEF RemoveHit
<1> QED
  BY <1>6, <1>7, <1>8 DEF RemoveHit, Map!Remove, Map!Forget


LEMMA PutUpdateRefines ==
    ASSUME Inv, IdxCoversCapacity, NEW k \in Keys, NEW v \in Values,
           PutUpdate(k, v)
    PROVE  Inv' /\ Map!Put(k, v)
<1>1. /\ entries' = Overwritten(entries, lookup[k], v)
      /\ lookup' = lookup /\ lookup[k] # Absent /\ capacity' = capacity
  BY DEF PutUpdate, PutReturns, Present
<1>2. /\ entries' \in Seq(Entries) /\ Len(entries') = Len(entries)
      /\ \A j \in 1 .. Len(entries) : /\ entries'[j].key = entries[j].key
                                      /\ entries'[j].hash = entries[j].hash
      /\ Matched(entries', lookup)
      /\ MapOf(entries', lookup) = [MapOf(entries, lookup) EXCEPT ![k] = v]
  <2>1. entries \in Seq(Entries) /\ lookup \in Lookups /\ Matched(entries, lookup)
    BY InvFacts
  <2> QED
    BY <1>1, <2>1, UpdateStep
<1>3. Inv'
  <2>1. \A i \in 1 .. Len(entries') : entries'[i].hash = Hash[entries'[i].key]
    BY <1>2, InvFacts
  <2>2. Count(k)
    BY DEF PutUpdate, PutReturns
  <2> QED
    BY <1>1, <1>2, <2>1, <2>2, CountStep, InvFacts, InvNext
<1>4. Contents' = Map!Store(Contents, k, v) /\ k \in Map!Held(Contents)
  BY <1>1, <1>2, ContentsAt DEF Contents, Map!Store, Map!Held, Present
<1> QED
  BY <1>3, <1>4 DEF PutUpdate, PutReturns, Map!Put, Map!AfterPut

LEMMA PutNoRoomRefines ==
    ASSUME Inv, IdxCoversCapacity, NEW k \in Keys, NEW v \in Values,
           PutNoRoom(k, v)
    PROVE  Inv' /\ Map!Put(k, v)
<1>1. Inv' /\ Contents' = Contents
  BY CountStep, ReadStep DEF PutNoRoom, PutReturns
<1>2. k \notin Map!Held(Contents)
  BY ContentsAt DEF PutNoRoom, Map!Held
<1>3. ~(Map!HeldCount(Contents) < capacity) /\ capacity = 0
  BY InvFacts, HeldIsLength DEF Contents, PutNoRoom
<1>4. Contents' \in Map!AfterPut(Contents, capacity, k, v)
  BY <1>1, <1>2, <1>3 DEF Map!AfterPut
<1> QED
  BY <1>1, <1>4 DEF PutNoRoom, PutReturns, Map!Put

LEMMA PutNewRefines ==
    ASSUME Inv, IdxCoversCapacity, NEW k \in Keys, NEW v \in Values,
           PutNew(k, v)
    PROVE  Inv' /\ Map!Put(k, v)
<1>1. /\ lookup[k] = Absent /\ Len(entries) < IdxSpace
      /\ Len(entries) < capacity /\ capacity' = capacity
      /\ lookup' = Listed(lookup, entries, k)
      /\ entries' = Pushed(entries, k, v)
  BY InvFacts DEF PutNew, PutReturns, Present
<1>2. /\ entries' \in Seq(Entries) /\ Len(entries') = Len(entries) + 1
      /\ lookup' \in Lookups
      /\ Matched(entries', lookup')
      /\ MapOf(entries', lookup') = [MapOf(entries, lookup) EXCEPT ![k] = v]
  <2>1. entries \in Seq(Entries) /\ lookup \in Lookups /\ Matched(entries, lookup)
    BY InvFacts
  <2> QED
    BY <1>1, <2>1, PushStep
<1>3. Inv'
  <2>1. \A i \in 1 .. Len(entries') : entries'[i].hash = Hash[entries'[i].key]
    <3>1. \A j \in 1 .. Len(entries) : entries'[j] = entries[j]
      BY <1>1, InvFacts DEF Pushed
    <3>2. entries'[Len(entries) + 1] = NewEntry(k, v)
      BY <1>1, InvFacts DEF Pushed
    <3>3. Len(entries') = Len(entries) + 1 /\ Len(entries) \in Nat
      BY <1>2, InvFacts
    <3> QED
      BY <3>1, <3>2, <3>3, InvFacts DEF NewEntry
  <2>2. Count(k) /\ Len(entries') <= capacity
    BY <1>1, <1>2, InvFacts DEF PutNew, PutReturns
  <2> QED
    BY <1>1, <1>2, <2>1, <2>2, CountStep, InvNext
<1>4. Contents' = Map!Store(Contents, k, v)
  BY <1>2 DEF Contents, Map!Store
<1>5. Map!HeldCount(Contents) < capacity
  BY <1>1, InvFacts, HeldIsLength DEF Contents
<1>6. Contents' \in Map!AfterPut(Contents, capacity, k, v)
  BY <1>4, <1>5 DEF Map!AfterPut
<1> QED
  BY <1>3, <1>6 DEF PutNew, PutReturns, Map!Put

\* The victim is a slot of the slab.
LEMMA VictimInRange ==
    ASSUME NEW es, Len(es) \in Nat, Len(es) > 0, NEW s,
           NEW P \in Probes(es), NEW i \in Victims(es, s, P)
    PROVE  i \in 0 .. Len(es) - 1
  BY DEF Probes, Victims

LEMMA PutEvictRefines ==
    ASSUME Inv, IdxCoversCapacity, NEW k \in Keys, NEW v \in Values,
           PutEvict(k, v)
    PROVE  Inv' /\ Map!Put(k, v)
<1>0. PICK P \in Probes(entries) :
        \E i \in Victims(entries, sketch', P) :
          LET kept == SwapRemoved(entries, i)
              table == Unlisted(lookup, entries, entries[i + 1].key, i)
          IN  lookup' = Listed(table, kept, k) /\ entries' = Pushed(kept, k, v)
  BY DEF PutEvict
<1>1. PICK i \in Victims(entries, sketch', P) :
          LET kept == SwapRemoved(entries, i)
              table == Unlisted(lookup, entries, entries[i + 1].key, i)
          IN  lookup' = Listed(table, kept, k) /\ entries' = Pushed(kept, k, v)
  BY <1>0
<1> DEFINE gone == entries[i + 1].key
           kept == SwapRemoved(entries, i)
           table == Unlisted(lookup, entries, gone, i)
<1>2. /\ lookup[k] = Absent /\ capacity = Len(entries) /\ 0 < capacity
      /\ capacity' = capacity /\ Len(entries) <= IdxSpace
  BY InvFacts DEF PutEvict, PutReturns, Present
<1>3. i \in 0 .. Len(entries) - 1
  BY <1>2, InvFacts, VictimInRange
<1>4. /\ kept \in Seq(Entries) /\ Len(kept) = Len(entries) - 1
      /\ table \in Lookups /\ Matched(kept, table)
      /\ MapOf(kept, table) = [MapOf(entries, lookup) EXCEPT ![gone] = Absent]
  <2>1. entries \in Seq(Entries) /\ lookup \in Lookups /\ Matched(entries, lookup)
    BY InvFacts
  <2> QED
    BY <1>2, <1>3, <2>1, RemovalStep
<1>5. gone \in Keys /\ lookup[gone] = i /\ lookup[gone] # Absent /\ gone # k
  <2>1. i + 1 \in 1 .. Len(entries) /\ entries[i + 1] \in Entries
    BY <1>3, InvFacts
  <2>2. gone \in Keys
    BY <2>1 DEF Entries
  <2>3. lookup[gone] = i
    <3>1. Matched(entries, lookup) /\ (i + 1) - 1 = i
      BY <1>3, InvFacts
    <3> QED
      BY <2>1, <3>1 DEF Matched
  <2> QED
    BY <2>2, <2>3, <1>2, <1>3, ShardAssumption
<1>6. table[k] = Absent
  <2>1. ASSUME Matched(kept, table), table[k] # Absent
        PROVE  FALSE
    <3>1. MapOf(kept, table)[k] = kept[table[k] + 1].value
      BY <2>1 DEF MapOf
    <3>2. kept[table[k] + 1].value \in Values
      <4>1. table[k] + 1 \in 1 .. Len(kept)
        <5>1. Len(kept) \in Nat
          BY <1>4
        <5> HIDE DEF kept, table
        <5> QED
          BY <2>1, <5>1 DEF Matched
      <4>2. kept[table[k] + 1] \in Entries
        BY <4>1, <1>4
      <4> QED
        BY <4>2 DEF Entries
    <3>3. MapOf(kept, table)[k] = Absent
      BY <1>2, <1>4, <1>5 DEF MapOf
    <3> QED
      BY <3>1, <3>2, <3>3, ShardAssumption
  <2> QED
    BY <2>1, <1>4
<1>7. /\ entries' \in Seq(Entries) /\ Len(entries') = Len(kept) + 1
      /\ lookup' \in Lookups
      /\ Matched(entries', lookup')
      /\ MapOf(entries', lookup') = [MapOf(kept, table) EXCEPT ![k] = v]
  <2>1. Len(kept) < IdxSpace
    BY <1>2, <1>4, InvFacts
  <2>2. /\ entries' = Pushed(kept, k, v)
        /\ lookup' = Listed(table, kept, k)
    BY <1>1
  <2>3. kept \in Seq(Entries) /\ table \in Lookups /\ Matched(kept, table)
    BY <1>4
  <2> HIDE DEF kept, table
  <2>4. /\ Pushed(kept, k, v) \in Seq(Entries)
        /\ Len(Pushed(kept, k, v)) = Len(kept) + 1
        /\ Listed(table, kept, k) \in Lookups
        /\ Matched(Pushed(kept, k, v), Listed(table, kept, k))
        /\ MapOf(Pushed(kept, k, v), Listed(table, kept, k))
             = [MapOf(kept, table) EXCEPT ![k] = v]
    BY <1>6, <2>1, <2>3, PushStep
  <2> QED
    BY <2>2, <2>4
<1>8. Inv'
  <2>1. \A j \in 1 .. Len(entries') : entries'[j].hash = Hash[entries'[j].key]
    <3>1. ASSUME NEW j \in 1 .. Len(kept)
          PROVE  \E m \in 1 .. Len(entries) : kept[j] = entries[m]
      <4>1. entries \in Seq(Entries) /\ Len(entries) \in Nat
        BY InvFacts
      <4>2. kept[j] = IF j = i + 1 THEN entries[Len(entries)] ELSE entries[j]
        BY <1>4, <4>1 DEF SwapRemoved
      <4>3. j \in 1 .. Len(entries) /\ Len(entries) \in 1 .. Len(entries)
        BY <1>3, <1>4, <4>1
      <4> HIDE DEF kept
      <4> QED
        BY <4>2, <4>3
    <3>2. \A j \in 1 .. Len(kept) : kept[j].hash = Hash[kept[j].key]
      BY <3>1, InvFacts
    <3>3. \A j \in 1 .. Len(kept) : entries'[j] = kept[j]
      BY <1>1, <1>4 DEF Pushed
    <3>4. entries'[Len(kept) + 1] = NewEntry(k, v)
      BY <1>1, <1>4 DEF Pushed
    <3> HIDE DEF kept
    <3> QED
      BY <3>2, <3>3, <3>4, <1>4, <1>7 DEF NewEntry
  <2>2. Count(k) /\ Len(entries') <= capacity
    BY <1>2, <1>4, <1>7, InvFacts DEF PutEvict, PutReturns
  <2> QED
    BY <1>2, <1>7, <2>1, <2>2, CountStep, InvNext
<1>9. Contents' = Map!Store(Map!Forget(Contents, gone), k, v)
  BY <1>4, <1>7 DEF Contents, Map!Store, Map!Forget
<1>10. /\ gone \in Map!Held(Contents) /\ k \notin Map!Held(Contents)
       /\ ~(Map!HeldCount(Contents) < capacity) /\ capacity # 0
  BY <1>2, <1>5, ContentsAt, InvFacts, HeldIsLength
     DEF Contents, Map!Held, Present
<1>11. Contents' \in Map!AfterPut(Contents, capacity, k, v)
  BY <1>9, <1>10 DEF Map!AfterPut
<1> QED
  BY <1>8, <1>11 DEF PutEvict, PutReturns, Map!Put


-----------------------------------------------------------------------------
LEMMA InitRefines ==
    ASSUME Init
    PROVE  Inv /\ Map!Init
<1>1. Contents = [k \in Keys |-> Absent]
  BY EmptyMatched DEF Init, Contents
<1>2. Inv
  <2>1. EmptySketch \in Sketches /\ WithinAging(EmptySketch, 0)
    BY EmptySketchType, EmptyWithin
  <2>2. AgePeriod \in Nat \ {0} /\ capacity \in Capacities /\ 0 <= capacity
    BY ShardAssumption DEF Init
  <2>3. TypeOK /\ SlabMatchesLookup
    BY <2>1, <2>2, EmptyMatched DEF Init, TypeOK, SlabMatchesLookup, Lookups
  <2>4. HashFollowsKey /\ WithinCapacity /\ AgingKeepsUp
    BY <2>1, <2>2 DEF Init, HashFollowsKey, WithinCapacity, AgingKeepsUp
  <2> QED
    BY <2>3, <2>4 DEF Inv
<1> QED
  BY <1>1, <1>2 DEF Init, Map!Init, Map!EmptyMap

LEMMA StepRefines ==
    ASSUME Inv, IdxCoversCapacity, [Next]_vars
    PROVE  Inv' /\ [Map!Next]_(Map!vars)
<1>1. CASE UNCHANGED vars
  <2>1. UNCHANGED <<entries, lookup, sketch, sampleCount, capacity, ret>>
    BY <1>1 DEF vars
  <2> QED
    BY <2>1, QuietStep DEF Map!vars
<1>2. ASSUME NEW k \in Keys, Get(k)
      PROVE  Inv' /\ Map!Next
  BY <1>2, GetRefines DEF Map!Next
<1>3. ASSUME NEW k \in Keys, RemoveHit(k)
      PROVE  Inv' /\ Map!Next
  BY <1>3, RemoveHitRefines DEF Map!Next
<1>4. ASSUME NEW k \in Keys, RemoveMiss(k)
      PROVE  Inv' /\ Map!Next
  BY <1>4, RemoveMissRefines DEF Map!Next
<1>5. ASSUME NEW k \in Keys, Contains(k)
      PROVE  Inv' /\ Map!Next
  BY <1>5, ContainsRefines DEF Map!Next
<1>6. ASSUME NEW k \in Keys, NEW v \in Values, Put(k, v)
      PROVE  Inv' /\ Map!Next
  BY <1>6, PutUpdateRefines, PutNoRoomRefines, PutNewRefines, PutEvictRefines
     DEF Put, Map!Next
<1>7. ASSUME Size \/ IsEmpty \/ Clear
      PROVE  Inv' /\ Map!Next
  BY <1>7, SizeRefines, IsEmptyRefines, ClearRefines DEF Map!Next
<1> QED
  BY <1>1, <1>2, <1>3, <1>4, <1>5, <1>6, <1>7 DEF Next

\* The invariant holds in every reachable state of a shard whose capacity the
\* table's u32 slots can index.
THEOREM Invariance ==
    ASSUME IdxCoversCapacity
    PROVE  Spec => []Inv
<1>1. Init => Inv
  BY InitRefines
<1>2. Inv /\ [Next]_vars => Inv'
  BY StepRefines
<1> QED
  BY <1>1, <1>2, PTL DEF Spec

\* Every field keeps its type: the table's slots fit a u32, counters and totals
\* stay in range, and the aging counter stays below its period.
THEOREM TypeCorrect ==
    ASSUME IdxCoversCapacity
    PROVE  Spec => []TypeOK
  BY Invariance, PTL DEF Inv

\* Slab and table always match (swap_remove, sampled_evict): the index held for
\* a key is in range and is that key's, for any sequence of operations.
THEOREM SlabCorrect ==
    ASSUME IdxCoversCapacity
    PROVE  Spec => []SlabMatchesLookup
  BY Invariance, PTL DEF Inv

\* A shard never holds more than its capacity, whatever its size.
THEOREM CapacityRespected ==
    ASSUME IdxCoversCapacity
    PROVE  Spec => []WithinCapacity
  BY Invariance, PTL DEF Inv

\* Eviction always reads the frequency of the entry it judges.
THEOREM HashCorrect ==
    ASSUME IdxCoversCapacity
    PROVE  Spec => []HashFollowsKey
  BY Invariance, PTL DEF Inv

\* Neither the sketch's total nor the counters of a row together exceed two aging
\* periods (shard.rs, maybe_age_sketch), however many columns and rows there are.
THEOREM AgingCorrect ==
    ASSUME IdxCoversCapacity
    PROVE  Spec => []AgingKeepsUp
  BY Invariance, PTL DEF Inv

\* A shard implements the lossy map: every operation answers as a map does and
\* loses at most one other key, when it must.
THEOREM Refinement ==
    ASSUME IdxCoversCapacity
    PROVE  Spec => ImplementsLossyMap
<1>1. Init => Map!Init
  BY InitRefines
<1>2. Inv /\ [Next]_vars => [Map!Next]_(Map!vars)
  BY StepRefines
<1> QED
  BY <1>1, <1>2, Invariance, PTL DEF Spec, Map!Spec, ImplementsLossyMap

=============================================================================
