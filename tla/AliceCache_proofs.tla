-------------------------- MODULE AliceCache_proofs --------------------------
(***************************************************************************)
(* Proofs about the whole cache for every set of keys, values and threads, *)
(* any hash, any capacities and any configured number of shards: what len  *)
(* and is_empty answer, what the inserts account for, and that the cache   *)
(* is linearizable; then what layouts the constructors build, and what     *)
(* batches of calls answer and count.                                      *)
(*                                                                         *)
(* The inductive invariant AliceInv keeps every key in its own shard and   *)
(* every shard within its room, and knows of a scan that is half done what *)
(* its answer will be worth: it has counted as many keys of the shards     *)
(* below `next` as were held throughout, at least, and no more than were   *)
(* held at some moment or than those shards have room for.  That of the    *)
(* batches, BatchInv, knows that what a batch's keys are mapped to now has *)
(* been seen, and which answer is not tallied yet.                         *)
(***************************************************************************)
EXTENDS AliceCache, ShardLayout, BatchCalls, Counting

-----------------------------------------------------------------------------
(* The layout.                                                             *)

LEMMA OneIsPower == IsPowerOfTwo(1)
<1>1. 2 .. 1 = {}
  OBVIOUS
<1> QED
  BY <1>1 DEF IsPowerOfTwo

\* The doubling loop ends at a power of two within its bound, the largest.
LEMMA FloorFacts ==
    ASSUME NEW n \in Nat \ {0}
    PROVE  /\ FloorPowerOfTwo(n) \in 1 .. n
           /\ IsPowerOfTwo(FloorPowerOfTwo(n))
<1> DEFINE powers == {p \in 1 .. n : IsPowerOfTwo(p)}
<1>1. powers \in SUBSET Nat /\ 1 \in powers /\ IsFiniteSet(powers)
  <2>1. 1 \in Int /\ n \in Int /\ 1 \in 1 .. n
    OBVIOUS
  <2>2. IsFiniteSet(1 .. n)
    BY <2>1, FS_Interval
  <2> QED
    BY <2>1, <2>2, OneIsPower, FS_Subset
<1> HIDE DEF powers
<1>2. Max(powers) \in powers /\ \A x \in powers : x <= Max(powers)
  BY <1>1, MaxOfNaturals
<1>3. PICK p \in powers : \A x \in powers : x <= p
  BY <1>2
<1>4. p \in 1 .. n /\ IsPowerOfTwo(p) /\ \A q \in p + 1 .. n : ~IsPowerOfTwo(q)
  <2>1. p \in 1 .. n /\ IsPowerOfTwo(p)
    BY DEF powers
  <2>2. ASSUME NEW q \in p + 1 .. n, IsPowerOfTwo(q)
        PROVE  FALSE
    <3>1. q \in 1 .. n /\ ~(q <= p)
      BY <2>1
    <3>2. q \in powers
      BY <2>2, <3>1 DEF powers
    <3> QED
      BY <1>3, <3>1, <3>2
  <2> QED
    BY <2>1, <2>2
<1>5. \E x \in 1 .. n : IsPowerOfTwo(x) /\ \A q \in x + 1 .. n : ~IsPowerOfTwo(q)
  BY <1>4
<1> QED
  BY <1>5 DEF FloorPowerOfTwo

\* The number of shards in use is a power of two within the capacity.
LEMMA InUseFacts ==
    ASSUME NEW c \in Nat, NEW r \in Nat \ {0}, IsPowerOfTwo(r)
    PROVE  /\ ShardsInUse(c, r) \in Nat \ {0}
           /\ IsPowerOfTwo(ShardsInUse(c, r))
           /\ ShardsInUse(c, r) <= AtLeast1(c)
<1>1. AtLeast1(c) \in Nat \ {0}
  BY DEF AtLeast1
<1> DEFINE f == FloorPowerOfTwo(AtLeast1(c))
<1>2. f \in Nat \ {0} /\ f <= AtLeast1(c) /\ IsPowerOfTwo(f)
  <2>1. f \in 1 .. AtLeast1(c) /\ IsPowerOfTwo(f)
    BY <1>1, FloorFacts
  <2> QED
    BY <1>1, <2>1
<1> HIDE DEF f
<1>3. MaxShards \in Nat \ {0} /\ IsPowerOfTwo(MaxShards)
  BY ShardingAssumption
<1>4. ShardsInUse(c, r) \in {r, f, MaxShards} /\ ShardsInUse(c, r) <= f
  BY <1>2, <1>3 DEF ShardsInUse, Least, f
<1> QED
  BY <1>1, <1>2, <1>3, <1>4

\* The room of the first n of num shards.
Upto(c, num, n) == n * (c \div num) + Least(n, c % num)

\* The shards' rooms add up to the capacity, and none is far from its share.
LEMMA RoomFacts ==
    ASSUME NEW c \in Nat, NEW num \in Nat \ {0}
    PROVE  /\ Upto(c, num, 0) = 0
           /\ Upto(c, num, num) = c
           /\ \A n \in Nat :
                /\ Upto(c, num, n) \in Nat
                /\ ShardCapacity(c, num, n) \in Nat
                /\ c \div num <= ShardCapacity(c, num, n)
                /\ Upto(c, num, n + 1) = Upto(c, num, n) + ShardCapacity(c, num, n)
           /\ c \div num \in 0 .. c
           /\ num <= c => c \div num > 0
<1> DEFINE q == c \div num
           r == c % num
<1>1. q \in Nat /\ r \in 0 .. num - 1 /\ c = num * q + r
  BY Division
<1> HIDE DEF q, r
<1>2. /\ Least(0, r) = 0 /\ Least(num, r) = r
      /\ \A n \in Nat : /\ Least(n, r) \in Nat
                        /\ Least(n + 1, r) = Least(n, r) + (IF n < r THEN 1 ELSE 0)
  BY <1>1 DEF Least
<1>3. Upto(c, num, 0) = 0 /\ Upto(c, num, num) = c
  <2>1. 0 * q + 0 = 0
    BY <1>1
  <2> QED
    BY <1>1, <1>2, <2>1 DEF Upto, q, r
<1>4. ASSUME NEW n \in Nat
      PROVE  /\ Upto(c, num, n) \in Nat
             /\ ShardCapacity(c, num, n) \in Nat
             /\ q <= ShardCapacity(c, num, n)
             /\ Upto(c, num, n + 1) = Upto(c, num, n) + ShardCapacity(c, num, n)
  <2> DEFINE one == IF n < r THEN 1 ELSE 0
             l == Least(n, r)
             m == n * q
  <2>1. one \in Nat /\ l \in Nat /\ m \in Nat /\ (n + 1) * q = m + q
    BY <1>1, <1>2
  <2>2. Least(n + 1, r) = l + one
    BY <1>2
  <2>3. /\ ShardCapacity(c, num, n) = q + one
        /\ Upto(c, num, n) = m + l
        /\ Upto(c, num, n + 1) = (n + 1) * q + (l + one)
    BY <2>2 DEF ShardCapacity, Upto, q, r
  <2> HIDE DEF one, l, m
  <2> QED
    BY <1>1, <2>1, <2>3
<1>5. q \in 0 .. c
  <2>1. 1 * q <= num * q
    BY <1>1
  <2> QED
    BY <1>1, <2>1
<1>6. num <= c => q > 0
  <2>1. q = 0 => num * q = 0
    OBVIOUS
  <2> QED
    BY <1>1, <2>1
<1> QED
  BY <1>3, <1>4, <1>5, <1>6 DEF q

-----------------------------------------------------------------------------
(* Maps.                                                                   *)

Maps == [Keys -> Values \cup {NoValue}]

\* A put into a map with room for c keys, not none, keeps it a map with room
\* for c keys, and holds no key but those it held and the new one.  A key is
\* only lost for a new one, and when the map was full.
LEMMA PutFacts ==
    ASSUME NEW m \in Maps, NEW c \in Nat \ {0}, NEW k \in Keys, NEW v \in Values,
           IsFiniteSet(Held(m)), HeldCount(m) <= c,
           NEW m2 \in AfterPut(m, c, k, v)
    PROVE  /\ m2 \in Maps
           /\ Held(m2) \subseteq Held(m) \cup {k}
           /\ IsFiniteSet(Held(m2)) /\ HeldCount(m2) <= c
           /\ \/ m2 = Store(m, k, v)
              \/ /\ k \notin Held(m) /\ HeldCount(m) >= c
                 /\ \E lost \in Held(m) : m2 = Store(Forget(m, lost), k, v)
<1>1. HeldCount(m) \in Nat
  BY FS_CardinalityType DEF HeldCount
<1>2. /\ Store(m, k, v) \in Maps
      /\ Held(Store(m, k, v)) \subseteq Held(m) \cup {k}
  BY DEF Store, Maps, Held
<1>3. ASSUME m2 = Store(m, k, v), k \in Held(m) \/ HeldCount(m) < c
      PROVE  IsFiniteSet(Held(m2)) /\ HeldCount(m2) <= c
  <2>1. CASE k \in Held(m)
    <3>1. Held(m2) \subseteq Held(m)
      BY <1>2, <1>3, <2>1
    <3>2. IsFiniteSet(Held(m2)) /\ HeldCount(m2) \in Nat /\ HeldCount(m2) <= HeldCount(m)
      BY <3>1, FS_Subset, FS_CardinalityType DEF HeldCount
    <3> QED
      BY <1>1, <3>2
  <2>2. CASE k \notin Held(m)
    <3>1. /\ IsFiniteSet(Held(m) \cup {k})
          /\ Cardinality(Held(m) \cup {k}) = HeldCount(m) + 1
      BY <2>2, FS_AddElement DEF HeldCount
    <3>2. IsFiniteSet(Held(m2)) /\ HeldCount(m2) \in Nat /\ HeldCount(m2) <= HeldCount(m) + 1
      BY <1>2, <1>3, <3>1, FS_Subset, FS_CardinalityType DEF HeldCount
    <3> QED
      BY <1>1, <1>3, <2>2, <3>2
  <2> QED
    BY <2>1, <2>2
<1>4. ASSUME k \notin Held(m), ~(HeldCount(m) < c), NEW lost \in Held(m),
             m2 = Store(Forget(m, lost), k, v)
      PROVE  /\ m2 \in Maps
             /\ Held(m2) \subseteq Held(m) \cup {k}
             /\ IsFiniteSet(Held(m2)) /\ HeldCount(m2) <= c
  <2>1. m2 \in Maps
    BY <1>4 DEF Store, Forget, Maps, Held
  <2>2. Held(m2) \subseteq (Held(m) \ {lost}) \cup {k}
    BY <1>4 DEF Store, Forget, Maps, Held
  <2>3. /\ IsFiniteSet(Held(m) \ {lost})
        /\ Cardinality(Held(m) \ {lost}) = HeldCount(m) - 1
    BY FS_RemoveElement DEF HeldCount
  <2>4. /\ IsFiniteSet((Held(m) \ {lost}) \cup {k})
        /\ Cardinality((Held(m) \ {lost}) \cup {k}) = Cardinality(Held(m) \ {lost}) + 1
    BY <1>4, <2>3, FS_AddElement
  <2>5. IsFiniteSet(Held(m2)) /\ HeldCount(m2) <= Cardinality((Held(m) \ {lost}) \cup {k})
    BY <2>2, <2>4, FS_Subset DEF HeldCount
  <2>6. Cardinality((Held(m) \ {lost}) \cup {k}) = HeldCount(m)
    BY <1>1, <2>3, <2>4
  <2>7. HeldCount(m2) <= c
    <3>1. HeldCount(m2) \in Nat
      BY <2>5, FS_CardinalityType DEF HeldCount
    <3> QED
      BY <1>1, <2>5, <2>6, <3>1
  <2> QED
    BY <2>1, <2>2, <2>5, <2>7
<1>5. CASE k \in Held(m) \/ HeldCount(m) < c
  <2>1. m2 = Store(m, k, v)
    BY <1>5 DEF AfterPut
  <2> QED
    BY <1>2, <1>3, <1>5, <2>1
<1>6. CASE ~(k \in Held(m) \/ HeldCount(m) < c)
  <2>1. \E lost \in Held(m) : m2 = Store(Forget(m, lost), k, v)
    BY <1>6 DEF AfterPut
  <2>2. HeldCount(m) >= c
    BY <1>1, <1>6
  <2> QED
    BY <1>4, <1>6, <2>1, <2>2
<1> QED
  BY <1>5, <1>6

LEMMA ForgetFacts ==
    ASSUME NEW m \in Maps, NEW k \in Keys, IsFiniteSet(Held(m))
    PROVE  /\ Forget(m, k) \in Maps
           /\ Held(Forget(m, k)) \subseteq Held(m)
           /\ IsFiniteSet(Held(Forget(m, k)))
           /\ HeldCount(Forget(m, k)) <= HeldCount(m)
<1>1. Forget(m, k) \in Maps /\ Held(Forget(m, k)) \subseteq Held(m)
  BY DEF Forget, Maps, Held
<1> QED
  BY <1>1, FS_Subset DEF HeldCount

-----------------------------------------------------------------------------
(* The invariant.                                                          *)

Before(n) == Upto(capacity, Num, n)         \* the room of the first n shards
Below(n) == {k \in Keys : ShardOf(k) < n}   \* the keys that belong to them
OfShard(s) == {k \in Keys : ShardOf(k) = s}

\* Each shard holds keys of its own only, and no more than it has room for.
Filled ==
    \A s \in Shards(Num) :
        /\ Held(shards[s]) \subseteq OfShard(s)
        /\ IsFiniteSet(Held(shards[s]))
        /\ HeldCount(shards[s]) <= RoomOf(s)

Answers == Values \cup {NoValue, NoCall, Yes, No} \cup Nat

Shape ==
    /\ capacity \in Capacities
    /\ shards \in [Shards(Num) -> Maps]
    /\ stats \in [StatNames -> Nat]
    /\ at \in [Threads -> Places]
    /\ call \in [Threads -> Calls \cup {NoCall}]
    /\ answer \in [Threads -> Answers]
    /\ found \in [Threads -> Nat]
    /\ next \in [Threads -> Nat]
    /\ always \in [Threads -> SUBSET Keys]
    /\ ever \in [Threads -> SUBSET Keys]

\* The place a thread is at belongs to its call.
CallOK(t) ==
    /\ at[t] # "idle" => call[t] \in Calls
    /\ at[t] = "shard" => call[t].op \in {"get", "remove", "contains", "put"}
    /\ at[t] = "count" => call[t].op \in {"get", "put"}
    /\ at[t] = "scan" => call[t].op \in {"len", "is_empty"} /\ next[t] \in Shards(Num)
    /\ at[t] = "reset" => call[t].op = "reset" /\ next[t] \in 0 .. 3
    /\ at[t] \notin {"count", "return"} => answer[t] = NoCall

\* A scan knows what it has seen.
ScanOK(t) ==
    /\ always[t] \subseteq ever[t] /\ IsFiniteSet(ever[t])
    /\ at[t] = "scan" =>
         /\ always[t] \subseteq HeldNow /\ HeldNow \subseteq ever[t]
         /\ call[t].op = "len" =>
              /\ found[t] <= Before(next[t])
              /\ Cardinality(always[t] \cap Below(next[t])) <= found[t]
              /\ found[t] <= Cardinality(ever[t] \cap Below(next[t]))
         /\ call[t].op = "is_empty" => always[t] \cap Below(next[t]) = {}

LenOK(t) ==
    (at[t] = "return" /\ call[t].op = "len") =>
        /\ answer[t] \in Nat
        /\ answer[t] <= capacity
        /\ Cardinality(always[t]) <= answer[t]
        /\ answer[t] <= Cardinality(ever[t])

EmptyOK(t) ==
    (at[t] = "return" /\ call[t].op = "is_empty") =>
        IF answer[t] = Yes THEN always[t] = {} ELSE ever[t] # {}

ThreadOK(t) == CallOK(t) /\ ScanOK(t) /\ LenOK(t) /\ EmptyOK(t)

\* The puts that have stored their entry and not yet counted it.
Late == {t \in Threads : at[t] = "count" /\ call[t].op = "put"}

Covered ==
    /\ IsFiniteSet(Late)
    /\ Cardinality(HeldNow \ known) <= stats["inserts"] + Cardinality(Late)

AliceInv == Shape /\ Filled /\ Covered /\ \A t \in Threads : ThreadOK(t)

LEMMA InvImplies ==
    ASSUME AliceInv
    PROVE  TypeOK /\ LenIsBracketed /\ EmptyIsBracketed /\ InsertsCoverContents
<1>1. TypeOK
  BY DEF AliceInv, Shape, ThreadOK, CallOK, TypeOK, Maps
<1>2. LenIsBracketed
  BY DEF AliceInv, ThreadOK, LenOK, LenIsBracketed
<1>3. EmptyIsBracketed
  BY DEF AliceInv, ThreadOK, EmptyOK, EmptyIsBracketed
<1>4. InsertsCoverContents
  BY DEF AliceInv, Covered, Late, InsertsCoverContents
<1> QED
  BY <1>1, <1>2, <1>3, <1>4

\* The layout in the state.
LEMMA Layout ==
    ASSUME capacity \in Capacities
    PROVE  /\ capacity \in Nat
           /\ Num \in Nat \ {0}
           /\ \A k \in Keys : ShardOf(k) \in Shards(Num)
           /\ capacity > 0 => \A s \in Shards(Num) : RoomOf(s) \in Nat \ {0}
           /\ capacity \div Num \in 0 .. capacity
           /\ Before(0) = 0 /\ Before(Num) = capacity
           /\ \A n \in Nat : /\ Before(n) \in Nat /\ RoomOf(n) \in Nat
                             /\ Before(n + 1) = Before(n) + RoomOf(n)
                             /\ capacity \div Num <= RoomOf(n)
<1>1. capacity \in Nat /\ Requested \in Nat \ {0} /\ IsPowerOfTwo(Requested)
  BY CacheAssumption
<1>2. Num \in Nat \ {0} /\ Num <= AtLeast1(capacity)
  BY <1>1, InUseFacts DEF Num
<1> DEFINE num == Num
<1>3. num \in Nat \ {0} /\ num <= AtLeast1(capacity)
  BY <1>2
<1>4. \A k \in Keys : Hash[k] % num \in 0 .. num - 1
  BY <1>3, CacheAssumption
<1>5. /\ Upto(capacity, num, 0) = 0
      /\ Upto(capacity, num, num) = capacity
      /\ \A n \in Nat :
           /\ Upto(capacity, num, n) \in Nat
           /\ ShardCapacity(capacity, num, n) \in Nat
           /\ capacity \div num <= ShardCapacity(capacity, num, n)
           /\ Upto(capacity, num, n + 1)
                = Upto(capacity, num, n) + ShardCapacity(capacity, num, n)
      /\ capacity \div num \in 0 .. capacity
      /\ num <= capacity => capacity \div num > 0
  <2> HIDE DEF num
  <2> QED
    BY <1>1, <1>3, RoomFacts
<1>6. ASSUME capacity > 0, NEW s \in 0 .. num - 1
      PROVE  ShardCapacity(capacity, num, s) \in Nat \ {0}
  <2>1. num <= capacity
    BY <1>1, <1>3, <1>6 DEF AtLeast1
  <2> DEFINE q == capacity \div num
             room == ShardCapacity(capacity, num, s)
  <2>2. s \in Nat
    BY <1>3
  <2>3. q \in Nat /\ q > 0 /\ room \in Nat /\ q <= room
    BY <1>1, <1>5, <2>1, <2>2
  <2> HIDE DEF q, room
  <2>4. room \in Nat \ {0}
    BY <2>3
  <2> QED
    BY <2>4 DEF room
<1> QED
  BY <1>1, <1>3, <1>4, <1>5, <1>6 DEF Before, ShardOf, ShardOfHash, RoomOf, Shards

\* The layout stays.
LEMMA Fixed ==
    ASSUME UNCHANGED capacity
    PROVE  /\ Num' = Num
           /\ \A k : ShardOf(k)' = ShardOf(k)
           /\ \A n : RoomOf(n)' = RoomOf(n) /\ Before(n)' = Before(n) /\ Below(n)' = Below(n)
           /\ \A n : OfShard(n)' = OfShard(n)
  BY DEF Num, ShardOf, RoomOf, Before, Below, OfShard

\* What is held now, by the key: its own shard has it.
LEMMA HeldFacts ==
    ASSUME Shape, Filled
    PROVE  /\ HeldNow \subseteq Keys
           /\ \A k \in Keys : k \in HeldNow <=> shards[ShardOf(k)][k] # NoValue
           /\ \A s \in Shards(Num) : Held(shards[s]) = HeldNow \cap OfShard(s)
<1>1. DOMAIN shards = Shards(Num)
  BY DEF Shape
<1>2. \A k : k \in HeldNow <=> \E s \in Shards(Num) : k \in Held(shards[s])
  BY <1>1 DEF HeldNow, HeldBy
<1>3. \A s \in Shards(Num) : \A k \in Held(shards[s]) :
         k \in Keys /\ ShardOf(k) = s /\ shards[s][k] # NoValue
  BY DEF Filled, Held, OfShard
<1>4. \A k \in Keys : ShardOf(k) \in Shards(Num)
  BY Layout DEF Shape
<1> QED
  BY <1>2, <1>3, <1>4 DEF Held, OfShard

\* The first n shards, and one more.
LEMMA Prefix ==
    ASSUME capacity \in Capacities, NEW X \in SUBSET Keys, IsFiniteSet(X), NEW n \in Nat
    PROVE  /\ Cardinality(X \cap Below(n + 1))
                = Cardinality(X \cap Below(n)) + Cardinality(X \cap OfShard(n))
           /\ Cardinality(X \cap Below(n + 1)) \in Nat
           /\ Cardinality(X \cap Below(n)) \in Nat
           /\ Cardinality(X \cap OfShard(n)) \in Nat
<1>1. \A k \in Keys : ShardOf(k) \in Nat
  BY Layout DEF Shards
<1> DEFINE A == X \cap Below(n)
           B == X \cap OfShard(n)
<1>2. X \cap Below(n + 1) = A \cup B /\ A \cap B = {}
  BY <1>1 DEF Below, OfShard
<1>3. IsFiniteSet(A) /\ IsFiniteSet(B)
  BY FS_Subset
<1> HIDE DEF A, B
<1>4. /\ IsFiniteSet(A \cup B)
      /\ Cardinality(A \cup B) = Cardinality(A) + Cardinality(B) - Cardinality(A \cap B)
  BY <1>3, FS_Union
<1>5. Cardinality(A \cap B) = 0
  BY <1>2, FS_EmptySet
<1>6. Cardinality(A) \in Nat /\ Cardinality(B) \in Nat
  BY <1>3, FS_CardinalityType
<1>7. Cardinality(A \cup B) = Cardinality(A) + Cardinality(B)
  BY <1>4, <1>5, <1>6
<1>8. Cardinality(A \cup B) \in Nat
  BY <1>6, <1>7
<1>9. Cardinality(X \cap Below(n + 1)) = Cardinality(A \cup B)
  BY <1>2
<1>10. /\ Cardinality(X \cap Below(n + 1)) = Cardinality(A) + Cardinality(B)
       /\ Cardinality(X \cap Below(n + 1)) \in Nat
  BY <1>7, <1>8, <1>9
<1> QED
  BY <1>6, <1>10 DEF A, B

LEMMA AllBelow ==
    ASSUME capacity \in Capacities
    PROVE  /\ Below(Num) = Keys /\ Below(0) = {}
           /\ \A n \in Nat : Below(n + 1) = Below(n) \cup OfShard(n)
<1>1. Num \in Nat /\ \A k \in Keys : ShardOf(k) \in 0 .. Num - 1
  BY Layout DEF Shards
<1> HIDE DEF Num
<1> QED
  BY <1>1 DEF Below, OfShard

\* The shards together hold no more than the capacity.
LEMMA Contained ==
    ASSUME Shape, Filled
    PROVE  IsFiniteSet(HeldNow) /\ Cardinality(HeldNow) <= capacity
<1> DEFINE part(n) == HeldNow \cap Below(n)
           good == {n \in Nat : n <= Num =>
                       IsFiniteSet(part(n)) /\ Cardinality(part(n)) <= Before(n)}
<1>0. capacity \in Capacities
  BY DEF Shape
<1>1. 0 \in good
  <2>1. part(0) = {}
    BY <1>0, AllBelow
  <2>2. IsFiniteSet(part(0)) /\ Cardinality(part(0)) = 0
    BY <2>1, FS_EmptySet
  <2>3. Before(0) = 0
    BY <1>0, Layout
  <2> HIDE DEF part
  <2> QED
    BY <2>2, <2>3
<1>2. ASSUME NEW n \in Nat, n \in good
      PROVE  n + 1 \in good
  <2>1. SUFFICES ASSUME n + 1 <= Num
                 PROVE  /\ IsFiniteSet(part(n + 1))
                        /\ Cardinality(part(n + 1)) <= Before(n + 1)
    OBVIOUS
  <2>2. Num \in Nat /\ n \in Shards(Num) /\ n <= Num
    <3>1. Num \in Nat
      BY <1>0, Layout
    <3> QED
      BY <2>1, <3>1 DEF Shards
  <2>3. IsFiniteSet(part(n)) /\ Cardinality(part(n)) <= Before(n)
    BY <1>2, <2>2
  <2>4. /\ HeldNow \cap OfShard(n) = Held(shards[n])
        /\ IsFiniteSet(Held(shards[n]))
        /\ Cardinality(Held(shards[n])) <= RoomOf(n)
    BY <2>2, HeldFacts DEF Filled, HeldCount
  <2>5. part(n + 1) = part(n) \cup Held(shards[n])
    BY <1>0, <2>4, AllBelow
  <2>6. /\ IsFiniteSet(part(n + 1))
        /\ Cardinality(part(n + 1)) <= Cardinality(part(n)) + Cardinality(Held(shards[n]))
    <3>1. part(n) \cap Held(shards[n]) = {}
      <4>1. \A k \in part(n) : ShardOf(k) < n /\ ShardOf(k) \in Nat
        BY <1>0, Layout DEF Below, Shards
      <4>2. \A k \in Held(shards[n]) : ShardOf(k) = n
        BY <2>4 DEF OfShard
      <4> HIDE DEF part
      <4> QED
        BY <4>1, <4>2
    <3> HIDE DEF part
    <3>2. /\ IsFiniteSet(part(n) \cup Held(shards[n]))
          /\ Cardinality(part(n) \cup Held(shards[n]))
               = Cardinality(part(n)) + Cardinality(Held(shards[n]))
                   - Cardinality(part(n) \cap Held(shards[n]))
      BY <2>3, <2>4, FS_Union
    <3>3. /\ Cardinality(part(n) \cap Held(shards[n])) = 0
          /\ Cardinality(part(n)) \in Nat /\ Cardinality(Held(shards[n])) \in Nat
      BY <2>3, <2>4, <3>1, FS_EmptySet, FS_CardinalityType
    <3> DEFINE a == Cardinality(part(n))
               b == Cardinality(Held(shards[n]))
               c == Cardinality(part(n) \cap Held(shards[n]))
    <3>4. a \in Nat /\ b \in Nat /\ c = 0 /\ Cardinality(part(n + 1)) = a + b - c
      BY <2>5, <3>2, <3>3
    <3> HIDE DEF a, b, c
    <3>5. Cardinality(part(n + 1)) <= a + b
      BY <3>4
    <3> QED
      BY <2>5, <3>2, <3>5 DEF a, b
  <2>7. Before(n + 1) = Before(n) + RoomOf(n) /\ Before(n) \in Nat /\ RoomOf(n) \in Nat
    BY <1>0, Layout
  <2>8. /\ Cardinality(part(n + 1)) \in Nat
        /\ Cardinality(part(n)) \in Nat /\ Cardinality(Held(shards[n])) \in Nat
    BY <2>3, <2>4, <2>6, FS_CardinalityType
  <2> HIDE DEF part
  <2> QED
    BY <2>3, <2>4, <2>6, <2>7, <2>8
<1>3. part(Num) = HeldNow
  BY <1>0, AllBelow, HeldFacts
<1> HIDE DEF good
<1>4. \A n \in Nat : n \in good
  BY <1>1, <1>2, NatInduct
<1>5. Num \in Nat /\ Before(Num) = capacity /\ Num <= Num
  <2>1. Num \in Nat /\ Before(Num) = capacity
    BY <1>0, Layout
  <2> QED
    BY <2>1
<1>6. IsFiniteSet(part(Num)) /\ Cardinality(part(Num)) <= Before(Num)
  <2>1. Num \in good
    BY <1>4, <1>5
  <2> HIDE DEF part
  <2> QED
    BY <1>5, <2>1 DEF good
<1> HIDE DEF part
<1> QED
  BY <1>3, <1>5, <1>6

-----------------------------------------------------------------------------
(* What the steps have in common.                                          *)

LEMMA CallFacts ==
    ASSUME NEW c \in Calls
    PROVE  /\ c.op \in {"get", "remove", "contains", "put", "len", "is_empty", "reset"}
           /\ c.op \in {"get", "remove", "contains", "put"} => c.key \in Keys
           /\ c.op = "put" => c.value \in Values
  BY DEF Calls

LEMMA Names ==
    /\ StatNames = {"hits", "misses", "inserts", "evictions"}
    /\ \A i \in 0 .. 3 : Counters[i + 1] \in StatNames
  BY DEF StatNames, Counters

\* What a thread sees of another's change of the shards: Witnessed, and also
\* what holds of no change at all.
Seen(u) ==
    IF at[u] = "scan"
    THEN always'[u] = always[u] \cap HeldNow' /\ ever'[u] = ever[u] \cup HeldNow'
    ELSE always'[u] = always[u] /\ ever'[u] = ever[u]

\* A thread that takes no step keeps its part of the invariant, whatever
\* becomes of the shards meanwhile.
LEMMA Bystander ==
    ASSUME AliceInv, NEW u \in Threads, UNCHANGED capacity,
           UNCHANGED <<at[u], call[u], answer[u], found[u], next[u]>>,
           IsFiniteSet(HeldNow'), Seen(u)
    PROVE  ThreadOK(u)'
<1>1. ThreadOK(u) /\ capacity \in Capacities /\ always[u] \in SUBSET Keys
  BY DEF AliceInv, Shape
<1>2. /\ Num' = Num /\ Before(next[u])' = Before(next[u])
      /\ Below(next[u])' = Below(next[u])
  BY DEF Num, ShardOf, Before, Below
<1>3. CallOK(u)'
  BY <1>1, <1>2 DEF ThreadOK, CallOK
<1>4. CASE at[u] # "scan"
  BY <1>1, <1>3, <1>4 DEF Seen, ThreadOK, ScanOK, LenOK, EmptyOK
<1>5. ASSUME at[u] = "scan"
      PROVE  ThreadOK(u)'
  <2> DEFINE below == Below(next[u])
  <2>1. /\ always'[u] = always[u] \cap HeldNow' /\ ever'[u] = ever[u] \cup HeldNow'
        /\ IsFiniteSet(ever[u]) /\ always[u] \subseteq ever[u]
    BY <1>1, <1>5 DEF Seen, ThreadOK, ScanOK
  <2>2. IsFiniteSet(ever'[u]) /\ always'[u] \subseteq ever'[u]
    <3>1. IsFiniteSet(ever[u] \cup HeldNow')
      BY <2>1, FS_Union
    <3> QED
      BY <2>1, <3>1
  <2>3. always'[u] \subseteq HeldNow' /\ HeldNow' \subseteq ever'[u]
    BY <2>1
  <2>4. /\ always'[u] \cap below \subseteq always[u] \cap below
        /\ ever[u] \cap below \subseteq ever'[u] \cap below
    BY <2>1
  <2>5. /\ IsFiniteSet(always[u] \cap below) /\ IsFiniteSet(ever'[u] \cap below)
        /\ IsFiniteSet(ever[u] \cap below)
    <3> HIDE DEF below
    <3>1. /\ always[u] \cap below \subseteq ever[u] /\ ever[u] \cap below \subseteq ever[u]
          /\ ever'[u] \cap below \subseteq ever'[u]
      BY <2>1
    <3> QED
      BY <2>1, <2>2, <3>1, FS_Subset
  <2>6. /\ Cardinality(always'[u] \cap below) <= Cardinality(always[u] \cap below)
        /\ Cardinality(ever[u] \cap below) <= Cardinality(ever'[u] \cap below)
        /\ Cardinality(always'[u] \cap below) \in Nat
        /\ Cardinality(always[u] \cap below) \in Nat
        /\ Cardinality(ever[u] \cap below) \in Nat
        /\ Cardinality(ever'[u] \cap below) \in Nat
    BY <2>4, <2>5, FS_Subset, FS_CardinalityType
  <2>7. ASSUME call[u].op = "len"
        PROVE  /\ found[u] <= Before(next[u])
               /\ Cardinality(always'[u] \cap below) <= found[u]
               /\ found[u] <= Cardinality(ever'[u] \cap below)
    <3>1. /\ found[u] <= Before(next[u])
          /\ Cardinality(always[u] \cap below) <= found[u]
          /\ found[u] <= Cardinality(ever[u] \cap below)
          /\ found[u] \in Nat
      BY <1>1, <1>5, <2>7 DEF ThreadOK, ScanOK, AliceInv, Shape
    <3> HIDE DEF below
    <3> QED
      BY <2>6, <3>1
  <2>8. call[u].op = "is_empty" => always'[u] \cap below = {}
    BY <1>1, <1>5, <2>4 DEF ThreadOK, ScanOK
  <2>9. ScanOK(u)'
    <3> HIDE DEF below
    <3>1. (found[u])' = found[u] /\ (call[u])' = call[u] /\ Below(next[u])' = below
      BY <1>2 DEF below
    <3> QED
      BY <1>2, <2>2, <2>3, <2>7, <2>8, <3>1 DEF ScanOK
  <2>10. LenOK(u)' /\ EmptyOK(u)'
    BY <1>5 DEF LenOK, EmptyOK
  <2> QED
    BY <1>3, <2>9, <2>10 DEF ThreadOK
<1> QED
  BY <1>4, <1>5

\* The shards stay: every thread sees what it saw.
LEMMA NoneSeen ==
    ASSUME AliceInv, UNCHANGED <<shards, capacity, always, ever>>
    PROVE  /\ HeldNow' = HeldNow /\ IsFiniteSet(HeldNow')
           /\ Filled' /\ (shards \in [Shards(Num) -> Maps])'
           /\ \A u \in Threads : Seen(u)
<1>1. HeldNow' = HeldNow
  BY DEF HeldNow
<1>2. IsFiniteSet(HeldNow)
  BY Contained DEF AliceInv
<1>3. Filled' /\ (shards \in [Shards(Num) -> Maps])'
  BY DEF AliceInv, Shape, Filled, Num, OfShard, ShardOf, RoomOf
<1>4. ASSUME NEW u \in Threads
      PROVE  Seen(u)
  <2>1. at[u] = "scan" => always[u] \subseteq HeldNow /\ HeldNow \subseteq ever[u]
    BY DEF AliceInv, ThreadOK, ScanOK
  <2> QED
    BY <1>1, <2>1 DEF Seen
<1> QED
  BY <1>1, <1>2, <1>3, <1>4

\* A shard is rewritten, within its room and with keys of its own.
LEMMA Rewritten ==
    ASSUME AliceInv, NEW s \in Shards(Num), NEW m \in Maps,
           Held(m) \subseteq OfShard(s), IsFiniteSet(Held(m)), HeldCount(m) <= RoomOf(s),
           SetShard(s, m), UNCHANGED capacity
    PROVE  /\ HeldNow' = (HeldNow \ OfShard(s)) \cup Held(m)
           /\ IsFiniteSet(HeldNow')
           /\ Filled' /\ (shards \in [Shards(Num) -> Maps])'
           /\ (always \in [Threads -> SUBSET Keys])' /\ (ever \in [Threads -> SUBSET Keys])'
           /\ \A u \in Threads : Seen(u)
<1>1. /\ Num' = Num /\ capacity \in Capacities
      /\ \A n : RoomOf(n)' = RoomOf(n) /\ OfShard(n)' = OfShard(n)
  BY Fixed DEF AliceInv, Shape
<1>2. /\ shards' = [shards EXCEPT ![s] = m] /\ shards' \in [Shards(Num) -> Maps]
      /\ shards'[s] = m /\ \A r \in Shards(Num) : r # s => shards'[r] = shards[r]
  BY DEF SetShard, AliceInv, Shape
<1>3. /\ (shards \in [Shards(Num) -> Maps])'
      /\ \A r \in Shards(Num)' : /\ Held(shards[r])' \subseteq OfShard(r)'
                                 /\ IsFiniteSet(Held(shards[r])')
                                 /\ HeldCount(shards[r])' <= RoomOf(r)'
  <2>1. Shards(Num)' = Shards(Num)
    BY <1>1 DEF Shards
  <2>2. ASSUME NEW r \in Shards(Num)
        PROVE  /\ Held(shards'[r]) \subseteq OfShard(r)
               /\ IsFiniteSet(Held(shards'[r]))
               /\ HeldCount(shards'[r]) <= RoomOf(r)
    BY <1>2 DEF AliceInv, Filled
  <2> QED
    BY <1>1, <1>2, <2>1, <2>2 DEF Held, HeldCount
<1>4. Filled'
  BY <1>3 DEF Filled
<1>5. HeldNow' = (HeldNow \ OfShard(s)) \cup Held(m)
  <2>1. HeldNow' = UNION {Held(shards'[r]) : r \in Shards(Num)}
    BY <1>2 DEF HeldNow, HeldBy
  <2>2. /\ HeldNow \subseteq Keys
        /\ \A r \in Shards(Num) : Held(shards[r]) = HeldNow \cap OfShard(r)
    BY HeldFacts DEF AliceInv
  <2>3. \A k \in Keys : \A r : k \in OfShard(r) <=> r = ShardOf(k)
    BY DEF OfShard
  <2>4. \A k \in Keys : ShardOf(k) \in Shards(Num)
    BY <1>1, Layout
  <2>5. \A k : k \in HeldNow' <=> \E r \in Shards(Num) : k \in Held(shards'[r])
    BY <2>1
  <2>6. Held(m) \subseteq Keys
    BY DEF Held
  <2>7. ASSUME NEW k \in HeldNow'
        PROVE  k \in (HeldNow \ OfShard(s)) \cup Held(m)
    <3>1. PICK r \in Shards(Num) : k \in Held(shards'[r])
      BY <2>5
    <3>2. CASE r = s
      BY <1>2, <3>1, <3>2
    <3>3. CASE r # s
      BY <1>2, <2>2, <2>3, <3>1, <3>3
    <3> QED
      BY <3>2, <3>3
  <2>8. ASSUME NEW k \in HeldNow \ OfShard(s)
        PROVE  k \in HeldNow'
    <3>1. k \in Keys /\ ShardOf(k) \in Shards(Num) /\ ShardOf(k) # s
      BY <2>2, <2>3, <2>4
    <3>2. k \in Held(shards[ShardOf(k)])
      BY <2>2, <2>3, <3>1
    <3> QED
      BY <1>2, <2>5, <3>1, <3>2
  <2>9. Held(m) \subseteq HeldNow'
    BY <1>2, <2>5
  <2> QED
    BY <2>7, <2>8, <2>9
<1>6. IsFiniteSet(HeldNow')
  <2>1. IsFiniteSet(HeldNow \ OfShard(s))
    BY Contained, FS_Subset DEF AliceInv
  <2>2. IsFiniteSet((HeldNow \ OfShard(s)) \cup Held(m))
    BY <2>1, FS_Union
  <2> QED
    BY <1>5, <2>2
<1>7. /\ always' = [t \in Threads |->
                     IF at[t] = "scan" THEN always[t] \cap HeldNow' ELSE always[t]]
      /\ ever' = [t \in Threads |->
                     IF at[t] = "scan" THEN ever[t] \cup HeldNow' ELSE ever[t]]
  <2>1. HeldNow' = HeldBy([shards EXCEPT ![s] = m])
    BY <1>2 DEF HeldNow, HeldBy
  <2> QED
    BY <2>1 DEF SetShard, Witnessed
<1>8. HeldNow' \subseteq Keys
  <2>1. HeldNow \subseteq Keys /\ Held(m) \subseteq Keys
    BY HeldFacts DEF AliceInv, Held
  <2> QED
    BY <1>5, <2>1
<1>9. /\ always' \in [Threads -> SUBSET Keys] /\ ever' \in [Threads -> SUBSET Keys]
      /\ \A u \in Threads : Seen(u)
  <2>1. always \in [Threads -> SUBSET Keys] /\ ever \in [Threads -> SUBSET Keys]
    BY DEF AliceInv, Shape
  <2>2. always' \in [Threads -> SUBSET Keys] /\ ever' \in [Threads -> SUBSET Keys]
    BY <1>7, <1>8, <2>1
  <2>3. \A u \in Threads : Seen(u)
    BY <1>7 DEF Seen
  <2> QED
    BY <2>2, <2>3
<1> QED
  BY <1>3, <1>4, <1>5, <1>6, <1>9

LEMMA CoverKept ==
    ASSUME AliceInv, HeldNow' \ known' \subseteq HeldNow \ known,
           stats'["inserts"] = stats["inserts"], Late' = Late
    PROVE  Covered'
<1>1. IsFiniteSet(HeldNow \ known)
  BY Contained, FS_Subset DEF AliceInv
<1>2. /\ Cardinality(HeldNow' \ known') <= Cardinality(HeldNow \ known)
      /\ Cardinality(HeldNow' \ known') \in Nat /\ Cardinality(HeldNow \ known) \in Nat
  BY <1>1, FS_Subset, FS_CardinalityType
<1>3. Cardinality(Late) \in Nat /\ IsFiniteSet(Late)
  BY FS_CardinalityType DEF AliceInv, Covered
<1>4. stats["inserts"] \in Nat
  BY Names DEF AliceInv, Shape
<1>5. Cardinality(HeldNow \ known) <= stats["inserts"] + Cardinality(Late)
  BY DEF AliceInv, Covered
<1>6. Cardinality(HeldNow' \ known') <= stats["inserts"] + Cardinality(Late)
  BY <1>2, <1>3, <1>4, <1>5
<1> QED
  BY <1>3, <1>6 DEF Covered

\* A thread that takes a step and is then neither in a scan nor done with one.
LEMMA OutOfScan ==
    ASSUME AliceInv, NEW t \in Threads, CallOK(t)',
           at'[t] # "scan", at'[t] = "return" => call'[t].op \notin {"len", "is_empty"},
           always'[t] = always[t], ever'[t] = ever[t]
    PROVE  ThreadOK(t)'
<1>1. always[t] \subseteq ever[t] /\ IsFiniteSet(ever[t])
  BY DEF AliceInv, ThreadOK, ScanOK
<1> QED
  BY <1>1 DEF ThreadOK, ScanOK, LenOK, EmptyOK

-----------------------------------------------------------------------------
(* The steps.                                                              *)

\* A step of one thread: its own part, and what is everybody's.
LEMMA Together ==
    ASSUME AliceInv, NEW t \in Threads, UNCHANGED capacity,
           Shape', Filled', Covered', ThreadOK(t)',
           IsFiniteSet(HeldNow'), \A u \in Threads \ {t} : Seen(u),
           \A u \in Threads \ {t} : UNCHANGED <<at[u], call[u], answer[u], found[u], next[u]>>
    PROVE  AliceInv'
<1>1. ASSUME NEW u \in Threads, u # t
      PROVE  ThreadOK(u)'
  <2>1. UNCHANGED <<at[u], call[u], answer[u], found[u], next[u]>> /\ Seen(u)
    BY <1>1
  <2> QED
    BY <2>1, Bystander
<1>2. \A u \in Threads : ThreadOK(u)'
  BY <1>1
<1> QED
  BY <1>2 DEF AliceInv

LEMMA LateKept ==
    ASSUME AliceInv, NEW t \in Threads,
           at[t] # "count" \/ call[t].op # "put",
           at'[t] # "count" \/ call'[t].op # "put",
           \A u \in Threads \ {t} : UNCHANGED <<at[u], call[u]>>
    PROVE  Late' = Late
<1>1. \A u \in Threads \ {t} : at'[u] = at[u] /\ call'[u] = call[u]
  OBVIOUS
<1> QED
  BY <1>1 DEF Late

LEMMA InitStep == Init => AliceInv
<1> SUFFICES ASSUME Init
             PROVE  AliceInv
  OBVIOUS
<1>1. EmptyMap \in Maps /\ Held(EmptyMap) = {}
  BY DEF EmptyMap, Maps, Held
<1>2. IsFiniteSet({}) /\ Cardinality({}) = 0
  BY FS_EmptySet
<1>3. Shape
  <2>1. shards \in [Shards(Num) -> Maps]
    BY <1>1 DEF Init
  <2>2. stats \in [StatNames -> Nat]
    BY DEF Init
  <2> QED
    BY <2>1, <2>2 DEF Init, Shape, Places, Answers
<1>4. Filled
  <2>1. ASSUME NEW s \in Shards(Num)
        PROVE  /\ Held(shards[s]) = {} /\ HeldCount(shards[s]) = 0 /\ RoomOf(s) \in Nat
    <3>1. s \in Nat
      BY <1>3, Layout DEF Shards, Shape
    <3> QED
      BY <1>1, <1>2, <1>3, <3>1, Layout DEF Init, HeldCount, Shape
  <2> QED
    BY <1>2, <2>1 DEF Filled
<1>5. Covered
  <2>1. HeldNow = {}
    BY <1>1 DEF Init, HeldNow, HeldBy
  <2>2. Late = {}
    BY DEF Init, Late
  <2>3. stats["inserts"] = 0
    BY Names DEF Init
  <2> QED
    BY <1>2, <2>1, <2>2, <2>3 DEF Covered
<1>6. ASSUME NEW t \in Threads
      PROVE  ThreadOK(t)
  <2>1. at[t] = "idle" /\ always[t] = {} /\ ever[t] = {} /\ answer[t] = NoCall
    BY DEF Init
  <2> QED
    BY <1>2, <2>1 DEF ThreadOK, CallOK, ScanOK, LenOK, EmptyOK
<1> QED
  BY <1>3, <1>4, <1>5, <1>6 DEF AliceInv

LEMMA BeginStep ==
    ASSUME AliceInv, NEW t \in Threads, NEW c \in Calls, Begin(t, c)
    PROVE  AliceInv'
<1> DEFINE stage == IF c.op \in {"len", "is_empty"} THEN "scan"
                    ELSE IF c.op = "reset" THEN "reset" ELSE "shard"
<1>1. /\ UNCHANGED <<shards, capacity, stats, answer, known>>
      /\ at[t] = "idle"
      /\ call' = [call EXCEPT ![t] = c] /\ next' = [next EXCEPT ![t] = 0]
      /\ found' = [found EXCEPT ![t] = 0] /\ at' = [at EXCEPT ![t] = stage]
      /\ always' = [always EXCEPT ![t] = HeldNow]
      /\ ever' = [ever EXCEPT ![t] = HeldNow]
  BY DEF Begin, Go
<1>2. Shape /\ Filled /\ ThreadOK(t)
  BY DEF AliceInv
<1>3. HeldNow \in SUBSET Keys /\ IsFiniteSet(HeldNow) /\ HeldNow' = HeldNow
  BY <1>1, <1>2, HeldFacts, Contained DEF HeldNow
<1>4. /\ at'[t] = stage /\ call'[t] = c /\ next'[t] = 0 /\ found'[t] = 0
      /\ always'[t] = HeldNow /\ ever'[t] = HeldNow /\ answer'[t] = answer[t]
      /\ \A u \in Threads \ {t} :
           /\ UNCHANGED <<at[u], call[u], answer[u], found[u], next[u]>>
           /\ always'[u] = always[u] /\ ever'[u] = ever[u]
  <2> HIDE DEF stage
  <2> QED
    BY <1>1, <1>2 DEF Shape
<1>5. Shape'
  <2>1. at' \in [Threads -> Places]
    BY <1>1, <1>2 DEF Shape, Places
  <2>2. (shards \in [Shards(Num) -> Maps])'
    BY <1>1, <1>2 DEF Shape, Num
  <2> HIDE DEF stage
  <2> QED
    BY <1>1, <1>2, <1>3, <2>1, <2>2 DEF Shape
<1>6. Filled'
  BY <1>1, <1>2 DEF Filled, Num, OfShard, ShardOf, RoomOf
<1>7. Covered'
  <2>1. at'[t] # "count" /\ at[t] # "count"
    BY <1>1, <1>4
  <2> HIDE DEF stage
  <2>2. Late' = Late
    BY <1>4, <2>1, LateKept
  <2> QED
    BY <1>1, <1>3, <2>2, CoverKept
<1>8. ThreadOK(t)'
  <2>1. c.op \in {"get", "remove", "contains", "put", "len", "is_empty", "reset"}
    BY CallFacts
  <2>2. answer[t] = NoCall
    BY <1>1, <1>2 DEF ThreadOK, CallOK
  <2>3. /\ Num' = Num /\ Num \in Nat \ {0} /\ Before(next[t])' = 0 /\ Below(next[t])' = {}
    <3>1. capacity \in Capacities /\ UNCHANGED capacity
      BY <1>1, <1>2 DEF Shape
    <3>2. Before(next[t])' = Before(0) /\ Below(next[t])' = Below(0) /\ Num' = Num
      BY <1>1, <1>4 DEF Num, ShardOf, Before, Below
    <3> QED
      BY <3>1, <3>2, AllBelow, Layout
  <2>4. 0 \in Shards(Num)'
    BY <2>3 DEF Shards
  <2>5. CallOK(t)'
    BY <1>4, <2>1, <2>2, <2>4 DEF CallOK
  <2>6. ScanOK(t)'
    <3>1. /\ always'[t] \cap Below(next[t])' = {} /\ ever'[t] \cap Below(next[t])' = {}
          /\ Cardinality({}) = 0
      BY <2>3, FS_EmptySet
    <3>2. /\ found'[t] <= Before(next[t])'
          /\ Cardinality(always'[t] \cap Below(next[t])') <= found'[t]
          /\ found'[t] <= Cardinality(ever'[t] \cap Below(next[t])')
      <4>1. found'[t] = 0 /\ Before(next[t])' = 0
        BY <1>4, <2>3
      <4>2. /\ Cardinality(always'[t] \cap Below(next[t])') = 0
            /\ Cardinality(ever'[t] \cap Below(next[t])') = 0
        BY <3>1, Zenon
      <4> QED
        BY <4>1, <4>2
    <3>3. /\ always'[t] \subseteq ever'[t] /\ IsFiniteSet(ever'[t])
          /\ always'[t] \subseteq HeldNow' /\ HeldNow' \subseteq ever'[t]
      BY <1>3, <1>4
    <3> HIDE DEF stage
    <3> QED
      BY <3>1, <3>2, <3>3 DEF ScanOK
  <2>7. LenOK(t)' /\ EmptyOK(t)'
    BY <1>4 DEF LenOK, EmptyOK
  <2> QED
    BY <2>5, <2>6, <2>7 DEF ThreadOK
<1>9. \A u \in Threads \ {t} : Seen(u)
  <2>1. ASSUME NEW u \in Threads, u # t
        PROVE  Seen(u)
    <3>1. at[u] = "scan" => always[u] \subseteq HeldNow /\ HeldNow \subseteq ever[u]
      BY DEF AliceInv, ThreadOK, ScanOK
    <3> QED
      BY <1>3, <1>4, <2>1, <3>1 DEF Seen
  <2> QED
    BY <2>1
<1> HIDE DEF stage
<1> QED
  BY <1>1, <1>3, <1>4, <1>5, <1>6, <1>7, <1>8, <1>9, Together

\* A step that leaves the shards, and so what the scans have seen, alone.
LEMMA Quietly ==
    ASSUME AliceInv, NEW t \in Threads, UNCHANGED <<shards, capacity, call, always, ever>>,
           at' \in [Threads -> Places], answer' \in [Threads -> Answers],
           stats' \in [StatNames -> Nat],
           found' \in [Threads -> Nat], next' \in [Threads -> Nat],
           Covered', ThreadOK(t)',
           \A u \in Threads \ {t} : UNCHANGED <<at[u], answer[u], found[u], next[u]>>
    PROVE  AliceInv'
<1>1. /\ HeldNow' = HeldNow /\ IsFiniteSet(HeldNow')
      /\ Filled' /\ (shards \in [Shards(Num) -> Maps])'
      /\ \A u \in Threads : Seen(u)
  BY NoneSeen
<1>2. Shape'
  BY <1>1 DEF AliceInv, Shape
<1>3. \A u \in Threads \ {t} : UNCHANGED <<at[u], call[u], answer[u], found[u], next[u]>>
  OBVIOUS
<1> QED
  BY <1>1, <1>2, <1>3, Together

\* A step at a shard belongs to a call with a key, whose shard it is.
LEMMA KeyFacts ==
    ASSUME AliceInv, NEW t \in Threads, at[t] = "shard"
    PROVE  /\ call[t] \in Calls /\ answer[t] = NoCall
           /\ call[t].op \in {"get", "remove", "contains", "put"}
           /\ call[t].key \in Keys
           /\ call[t].op = "put" => call[t].value \in Values
           /\ ShardOf(call[t].key) \in Shards(Num)
           /\ Mine(t) \in Maps
           /\ Held(Mine(t)) \subseteq OfShard(ShardOf(call[t].key))
           /\ IsFiniteSet(Held(Mine(t)))
           /\ HeldCount(Mine(t)) <= RoomOf(ShardOf(call[t].key))
<1>1. /\ call[t] \in Calls /\ answer[t] = NoCall
      /\ call[t].op \in {"get", "remove", "contains", "put"}
  BY DEF AliceInv, ThreadOK, CallOK
<1>2. call[t].key \in Keys /\ (call[t].op = "put" => call[t].value \in Values)
  BY <1>1, CallFacts
<1>3. ShardOf(call[t].key) \in Shards(Num)
  BY <1>2, Layout DEF AliceInv, Shape
<1>4. Mine(t) \in Maps
  BY <1>3 DEF AliceInv, Shape, Mine
<1> QED
  BY <1>1, <1>2, <1>3, <1>4 DEF AliceInv, Filled, Mine

\* The steps at a shard that only read it, and the put that returns at once.
LEMMA ReadStep ==
    ASSUME AliceInv, NEW t \in Threads, Get(t) \/ PutNowhere(t) \/ Contains(t)
    PROVE  AliceInv'
<1>1. /\ UNCHANGED <<shards, capacity, stats, call, found, next, always, ever, known>>
      /\ at[t] = "shard" /\ call[t].op \in {"get", "put", "contains"}
  BY DEF Get, PutNowhere, Contains, AtShard
<1>2. PICK stage \in {"count", "return"}, a \in Answers :
        /\ at' = [at EXCEPT ![t] = stage] /\ answer' = [answer EXCEPT ![t] = a]
        /\ stage = "count" => call[t].op = "get"
  <2>1. answer \in [Threads -> Answers] /\ answer[t] = NoCall
    BY <1>1, KeyFacts DEF AliceInv, Shape
  <2>2. CASE Get(t)
    <3>1. Mine(t)[call[t].key] \in Answers
      BY <1>1, KeyFacts DEF Maps, Answers
    <3> QED
      BY <2>2, <3>1 DEF Get, Tell, Go, AtShard
  <2>3. CASE PutNowhere(t)
    <3>1. answer' = [answer EXCEPT ![t] = NoCall] /\ NoCall \in Answers
      BY <2>1, <2>3 DEF PutNowhere, Answers
    <3> QED
      BY <2>3, <3>1 DEF PutNowhere, Go
  <2>4. CASE Contains(t)
    <3>1. \A b : Truth(b) \in Answers
      BY DEF Truth, Answers
    <3> QED
      BY <2>4, <3>1 DEF Contains, Tell, Go
  <2> QED
    BY <2>2, <2>3, <2>4
<1>3. /\ at \in [Threads -> Places] /\ answer \in [Threads -> Answers]
      /\ stats \in [StatNames -> Nat] /\ call \in [Threads -> Calls \cup {NoCall}]
      /\ found \in [Threads -> Nat] /\ next \in [Threads -> Nat]
  BY DEF AliceInv, Shape
<1>4. /\ at'[t] = stage /\ call'[t] = call[t] /\ answer'[t] = a
      /\ always'[t] = always[t] /\ ever'[t] = ever[t]
      /\ \A u \in Threads \ {t} : UNCHANGED <<at[u], call[u], answer[u], found[u], next[u]>>
  BY <1>1, <1>2, <1>3
<1>5. Covered'
  <2>1. at[t] # "count" /\ (at'[t] # "count" \/ call'[t].op # "put")
    BY <1>1, <1>2, <1>4
  <2>2. Late' = Late
    BY <1>4, <2>1, LateKept
  <2>3. HeldNow' = HeldNow
    BY <1>1, NoneSeen
  <2> QED
    BY <1>1, <2>2, <2>3, CoverKept
<1>6. ThreadOK(t)'
  <2>1. CallOK(t)'
    BY <1>1, <1>2, <1>4, KeyFacts DEF CallOK
  <2> QED
    BY <1>1, <1>4, <2>1, OutOfScan
<1>7. at' \in [Threads -> Places] /\ answer' \in [Threads -> Answers]
  BY <1>2, <1>3 DEF Places
<1> QED
  BY <1>1, <1>3, <1>4, <1>5, <1>6, <1>7, Quietly

\* The steps that rewrite the shard of the call's key.
LEMMA WriteStep ==
    ASSUME AliceInv, NEW t \in Threads, Put(t) \/ Remove(t)
    PROVE  AliceInv'
<1> DEFINE k == call[t].key
           s == ShardOf(k)
<1>1. /\ UNCHANGED <<capacity, stats, call, found, next, known>>
      /\ at[t] = "shard" /\ k \in Keys /\ s \in Shards(Num) /\ answer[t] = NoCall
      /\ call[t] \in Calls /\ call[t].op \in {"put", "remove"}
      /\ shards[s] = Mine(t) /\ k \in OfShard(s)
  BY KeyFacts DEF Put, Remove, AtShard, Mine, OfShard
<1>2. PICK m \in Maps, stage \in {"count", "return"}, a \in Answers :
        /\ SetShard(s, m)
        /\ Held(m) \subseteq OfShard(s) /\ IsFiniteSet(Held(m)) /\ HeldCount(m) <= RoomOf(s)
        /\ at' = [at EXCEPT ![t] = stage] /\ answer' = [answer EXCEPT ![t] = a]
        /\ \/ Held(m) \subseteq Held(shards[s]) \cup {k} /\ stage = "count" /\ call[t].op = "put"
           \/ Held(m) \subseteq Held(shards[s]) /\ stage = "return" /\ call[t].op = "remove"
  <2>1. answer \in [Threads -> Answers]
    BY DEF AliceInv, Shape
  <2>2. /\ Mine(t) \in Maps /\ Held(Mine(t)) \subseteq OfShard(s)
        /\ IsFiniteSet(Held(Mine(t))) /\ HeldCount(Mine(t)) <= RoomOf(s)
    BY <1>1, KeyFacts
  <2>3. ASSUME Put(t)
        PROVE  \E m \in AfterPut(shards[s], RoomOf(s), k, call[t].value) :
                 /\ SetShard(s, m) /\ m \in Maps
                 /\ Held(m) \subseteq Held(shards[s]) \cup {k}
                 /\ IsFiniteSet(Held(m)) /\ HeldCount(m) <= RoomOf(s)
    <3>1. PICK m \in AfterPut(shards[s], RoomOf(s), k, call[t].value) : SetShard(s, m)
      BY <2>3 DEF Put
    <3>2. RoomOf(s) \in Nat \ {0} /\ call[t].value \in Values
      <4>1. capacity > 0 /\ call[t].op = "put" /\ capacity \in Capacities
        BY <2>3 DEF Put, AtShard, AliceInv, Shape
      <4> QED
        BY <1>1, <4>1, KeyFacts, Layout
    <3> HIDE DEF s, k
    <3>3. /\ m \in Maps /\ Held(m) \subseteq Held(shards[s]) \cup {k}
          /\ IsFiniteSet(Held(m)) /\ HeldCount(m) <= RoomOf(s)
      BY <1>1, <2>2, <3>1, <3>2, PutFacts
    <3> QED
      BY <3>1, <3>3
  <2>4. CASE Put(t)
    <3>1. PICK m \in Maps : /\ SetShard(s, m)
                            /\ Held(m) \subseteq Held(shards[s]) \cup {k}
                            /\ IsFiniteSet(Held(m)) /\ HeldCount(m) <= RoomOf(s)
      BY <2>3, <2>4
    <3>2. answer' = [answer EXCEPT ![t] = NoCall] /\ NoCall \in Answers
      BY <1>1, <2>1, <2>4 DEF Put, Answers
    <3>3. at' = [at EXCEPT ![t] = "count"] /\ call[t].op = "put"
      BY <2>4 DEF Put, Go, AtShard
    <3>4. Held(m) \subseteq OfShard(s)
      BY <1>1, <2>2, <3>1
    <3> HIDE DEF s, k
    <3> QED
      BY <3>1, <3>2, <3>3, <3>4
  <2>5. CASE Remove(t)
    <3>1. /\ SetShard(s, Forget(Mine(t), k)) /\ at' = [at EXCEPT ![t] = "return"]
          /\ answer' = [answer EXCEPT ![t] = Mine(t)[k]] /\ call[t].op = "remove"
      BY <2>5 DEF Remove, Tell, Go, AtShard
    <3>2. Mine(t)[k] \in Answers
      BY <1>1, <2>2 DEF Maps, Answers
    <3> DEFINE m == Forget(Mine(t), k)
    <3>3. /\ m \in Maps /\ Held(m) \subseteq Held(Mine(t))
          /\ IsFiniteSet(Held(m)) /\ HeldCount(m) <= HeldCount(Mine(t))
      BY <1>1, <2>2, ForgetFacts
    <3>4. HeldCount(m) <= RoomOf(s)
      <4>1. s \in Nat /\ capacity \in Capacities
        BY <1>1, Layout DEF AliceInv, Shape, Shards
      <4>2. /\ HeldCount(m) \in Nat /\ HeldCount(Mine(t)) \in Nat /\ RoomOf(s) \in Nat
        BY <2>2, <3>3, <4>1, FS_CardinalityType, Layout DEF HeldCount
      <4> HIDE DEF m, s, k
      <4> QED
        BY <2>2, <3>3, <4>2
    <3>5. Held(m) \subseteq OfShard(s)
      BY <2>2, <3>3
    <3>6. SetShard(s, m) /\ Held(m) \subseteq Held(shards[s])
      BY <1>1, <3>1, <3>3
    <3> HIDE DEF m, s, k
    <3> QED
      BY <3>1, <3>2, <3>3, <3>4, <3>5, <3>6
  <2> QED
    BY <2>4, <2>5
<1> HIDE DEF s, k
<1>3. /\ at \in [Threads -> Places] /\ answer \in [Threads -> Answers]
      /\ stats \in [StatNames -> Nat] /\ call \in [Threads -> Calls \cup {NoCall}]
      /\ found \in [Threads -> Nat] /\ next \in [Threads -> Nat]
      /\ capacity \in Capacities
  BY DEF AliceInv, Shape
<1>4. /\ at'[t] = stage /\ call'[t] = call[t] /\ answer'[t] = a
      /\ \A u \in Threads \ {t} : UNCHANGED <<at[u], call[u], answer[u], found[u], next[u]>>
  BY <1>1, <1>2, <1>3
<1>5. /\ HeldNow' = (HeldNow \ OfShard(s)) \cup Held(m) /\ IsFiniteSet(HeldNow')
      /\ Filled' /\ (shards \in [Shards(Num) -> Maps])'
      /\ (always \in [Threads -> SUBSET Keys])' /\ (ever \in [Threads -> SUBSET Keys])'
      /\ \A u \in Threads : Seen(u)
  BY <1>1, <1>2, Rewritten
<1>6. Shape'
  <2>1. at' \in [Threads -> Places] /\ answer' \in [Threads -> Answers]
    BY <1>2, <1>3 DEF Places
  <2> QED
    BY <1>1, <1>3, <1>5, <2>1 DEF Shape
<1>7. Covered'
  <2>1. /\ Cardinality(HeldNow \ known) <= stats["inserts"] + Cardinality(Late)
        /\ IsFiniteSet(Late) /\ Cardinality(Late) \in Nat
        /\ stats["inserts"] \in Nat
        /\ IsFiniteSet(HeldNow \ known) /\ Cardinality(HeldNow \ known) \in Nat
    <3>1. IsFiniteSet(Late) /\ IsFiniteSet(HeldNow \ known)
      BY Contained, FS_Subset DEF AliceInv, Covered
    <3> QED
      BY <3>1, Names, FS_CardinalityType DEF AliceInv, Covered, Shape
  <2>2. Held(shards[s]) = HeldNow \cap OfShard(s)
    BY <1>1, HeldFacts DEF AliceInv
  <2>3. ASSUME Held(m) \subseteq Held(shards[s]), stage = "return"
        PROVE  Covered'
    <3>1. HeldNow' \ known' \subseteq HeldNow \ known
      BY <1>1, <1>5, <2>2, <2>3
    <3>2. Late' = Late
      <4>1. at[t] # "count" /\ at'[t] # "count"
        BY <1>1, <1>4, <2>3
      <4> QED
        BY <1>4, <4>1, LateKept
    <3> QED
      BY <1>1, <3>1, <3>2, CoverKept
  <2>4. ASSUME Held(m) \subseteq Held(shards[s]) \cup {k}, stage = "count",
               call[t].op = "put"
        PROVE  Covered'
    <3>1. Late' = Late \cup {t} /\ t \notin Late
      <4>1. at'[t] = "count" /\ call'[t].op = "put" /\ at[t] = "shard"
        BY <1>1, <1>4, <2>4
      <4>2. \A u \in Threads \ {t} : at'[u] = at[u] /\ call'[u] = call[u]
        BY <1>4
      <4> QED
        BY <4>1, <4>2 DEF Late
    <3>2. IsFiniteSet(Late') /\ Cardinality(Late') = Cardinality(Late) + 1
      BY <2>1, <3>1, FS_AddElement
    <3>3. HeldNow' \ known' \subseteq (HeldNow \ known) \cup {k}
      BY <1>1, <1>5, <2>2, <2>4
    <3> DEFINE A == HeldNow \ known
    <3>4. IsFiniteSet(A \cup {k}) /\ Cardinality(A \cup {k}) <= Cardinality(A) + 1
      <4> HIDE DEF A
      <4>1. IsFiniteSet(A) /\ Cardinality(A) \in Nat
        BY <2>1 DEF A
      <4>2. CASE k \in A
        <5>1. A \cup {k} = A
          BY <4>2
        <5> QED
          BY <4>1, <5>1
      <4>3. CASE k \notin A
        <5>1. IsFiniteSet(A \cup {k}) /\ Cardinality(A \cup {k}) = Cardinality(A) + 1
          BY <4>1, <4>3, FS_AddElement
        <5> QED
          BY <4>1, <5>1
      <4> QED
        BY <4>2, <4>3
    <3>5. /\ Cardinality(HeldNow' \ known') <= Cardinality(A \cup {k})
          /\ Cardinality(HeldNow' \ known') \in Nat /\ Cardinality(A \cup {k}) \in Nat
      BY <3>3, <3>4, FS_Subset, FS_CardinalityType
    <3>6. stats'["inserts"] = stats["inserts"]
      BY <1>1
    <3>7. Cardinality(HeldNow' \ known') <= stats'["inserts"] + Cardinality(Late')
      <4>1. Cardinality(HeldNow' \ known') <= Cardinality(A) + 1
        <5> HIDE DEF A
        <5>1. Cardinality(A) \in Nat
          BY <2>1 DEF A
        <5> QED
          BY <3>4, <3>5, <5>1
      <4> QED
        BY <2>1, <3>2, <3>5, <3>6, <4>1
    <3> QED
      BY <3>2, <3>7 DEF Covered
  <2> QED
    BY <1>2, <2>3, <2>4
<1>8. ThreadOK(t)'
  <2>1. answer' = [answer EXCEPT ![t] = a]
    BY <1>2
  <2>2. CallOK(t)'
    BY <1>1, <1>2, <1>4 DEF CallOK
  <2>3. always'[t] = always[t] /\ ever'[t] = ever[t]
    BY <1>1, <1>5 DEF Seen
  <2> QED
    BY <1>1, <1>2, <1>4, <2>2, <2>3, OutOfScan
<1> QED
  BY <1>1, <1>4, <1>5, <1>6, <1>7, <1>8, Together

LEMMA CountStep ==
    ASSUME AliceInv, NEW t \in Threads, Count(t)
    PROVE  AliceInv'
<1>1. /\ UNCHANGED <<shards, capacity, call, answer, found, next, always, ever, known>>
      /\ at[t] = "count" /\ at' = [at EXCEPT ![t] = "return"]
      /\ stats' = [stats EXCEPT ![CounterOf(t)] = @ + 1]
  BY DEF Count, Go
<1>2. /\ at \in [Threads -> Places] /\ answer \in [Threads -> Answers]
      /\ stats \in [StatNames -> Nat] /\ call \in [Threads -> Calls \cup {NoCall}]
      /\ found \in [Threads -> Nat] /\ next \in [Threads -> Nat]
  BY DEF AliceInv, Shape
<1>3. /\ at'[t] = "return" /\ call'[t] = call[t] /\ answer'[t] = answer[t]
      /\ always'[t] = always[t] /\ ever'[t] = ever[t]
      /\ \A u \in Threads \ {t} : UNCHANGED <<at[u], call[u], answer[u], found[u], next[u]>>
  BY <1>1, <1>2
<1>4. call[t] \in Calls /\ call[t].op \in {"get", "put"}
  BY <1>1 DEF AliceInv, ThreadOK, CallOK
<1>5. /\ CounterOf(t) \in StatNames
      /\ CounterOf(t) = "inserts" <=> call[t].op = "put"
  BY Names DEF CounterOf
<1>6. /\ stats' \in [StatNames -> Nat]
      /\ call[t].op = "put" => stats'["inserts"] = stats["inserts"] + 1
      /\ call[t].op # "put" => stats'["inserts"] = stats["inserts"]
      /\ stats["inserts"] \in Nat
  <2>1. "inserts" \in StatNames
    BY Names
  <2> QED
    BY <1>1, <1>2, <1>5, <2>1
<1>7. Covered'
  <2>1. HeldNow' = HeldNow /\ known' = known
    BY <1>1, NoneSeen
  <2>2. CASE call[t].op # "put"
    <3>1. Late' = Late
      BY <1>3, <2>2, LateKept
    <3> QED
      BY <1>6, <2>1, <2>2, <3>1, CoverKept
  <2>3. CASE call[t].op = "put"
    <3>1. Late' = Late \ {t} /\ t \in Late
      <4>1. \A u \in Threads \ {t} : at'[u] = at[u] /\ call'[u] = call[u]
        BY <1>3
      <4> QED
        BY <1>1, <1>3, <2>3, <4>1 DEF Late
    <3>2. /\ IsFiniteSet(Late) /\ Cardinality(Late) \in Nat
          /\ Cardinality(HeldNow \ known) <= stats["inserts"] + Cardinality(Late)
      BY FS_CardinalityType DEF AliceInv, Covered
    <3>3. IsFiniteSet(Late') /\ Cardinality(Late') = Cardinality(Late) - 1
      BY <3>1, <3>2, FS_RemoveElement
    <3>4. stats'["inserts"] + Cardinality(Late') = stats["inserts"] + Cardinality(Late)
      BY <1>6, <2>3, <3>2, <3>3
    <3>5. Cardinality(HeldNow' \ known') <= stats'["inserts"] + Cardinality(Late')
      BY <2>1, <3>2, <3>4
    <3> QED
      BY <3>3, <3>5 DEF Covered
  <2> QED
    BY <2>2, <2>3
<1>8. ThreadOK(t)'
  <2>1. CallOK(t)'
    BY <1>3, <1>4 DEF CallOK
  <2> QED
    BY <1>3, <1>4, <2>1, OutOfScan
<1>9. at' \in [Threads -> Places]
  BY <1>1, <1>2 DEF Places
<1> QED
  BY <1>1, <1>2, <1>3, <1>6, <1>7, <1>8, <1>9, Quietly

LEMMA ResetStep ==
    ASSUME AliceInv, NEW t \in Threads, ResetOne(t)
    PROVE  AliceInv'
<1> DEFINE name == Counters[next[t] + 1]
<1>1. /\ UNCHANGED <<shards, capacity, call, answer, found, always, ever>>
      /\ at[t] = "reset" /\ stats' = [stats EXCEPT ![name] = 0]
      /\ known' = (IF name = "inserts" THEN HeldNow ELSE known)
      /\ next' = [next EXCEPT ![t] = @ + 1]
      /\ at' = [at EXCEPT ![t] = IF next[t] = 3 THEN "return" ELSE "reset"]
  BY DEF ResetOne, Go
<1>2. /\ at \in [Threads -> Places] /\ answer \in [Threads -> Answers]
      /\ stats \in [StatNames -> Nat] /\ call \in [Threads -> Calls \cup {NoCall}]
      /\ found \in [Threads -> Nat] /\ next \in [Threads -> Nat]
  BY DEF AliceInv, Shape
<1>3. /\ at'[t] = (IF next[t] = 3 THEN "return" ELSE "reset")
      /\ call'[t] = call[t] /\ answer'[t] = answer[t] /\ next'[t] = next[t] + 1
      /\ always'[t] = always[t] /\ ever'[t] = ever[t]
      /\ \A u \in Threads \ {t} : UNCHANGED <<at[u], call[u], answer[u], found[u], next[u]>>
  BY <1>1, <1>2
<1>4. /\ call[t] \in Calls /\ call[t].op = "reset" /\ next[t] \in 0 .. 3
      /\ answer[t] = NoCall
  BY <1>1 DEF AliceInv, ThreadOK, CallOK
<1>5. name \in StatNames /\ "inserts" \in StatNames
  BY <1>4, Names
<1>6. /\ stats' \in [StatNames -> Nat]
      /\ stats'["inserts"] = IF name = "inserts" THEN 0 ELSE stats["inserts"]
  <2> HIDE DEF name
  <2> QED
    BY <1>1, <1>2, <1>5
<1>7. Late' = Late
  <2>1. at[t] # "count" /\ at'[t] # "count"
    BY <1>1, <1>3
  <2> QED
    BY <1>3, <2>1, LateKept
<1>8. HeldNow' = HeldNow
  BY <1>1, NoneSeen
<1> HIDE DEF name
<1>9. Covered'
  <2>1. CASE name = "inserts"
    <3>1. HeldNow' \ known' = {} /\ stats'["inserts"] = 0
      BY <1>1, <1>6, <1>8, <2>1
    <3>2. Cardinality({}) = 0 /\ IsFiniteSet(Late) /\ Cardinality(Late) \in Nat
      BY FS_EmptySet, FS_CardinalityType DEF AliceInv, Covered
    <3>3. Cardinality(HeldNow' \ known') <= stats'["inserts"] + Cardinality(Late')
      <4>1. Cardinality(HeldNow' \ known') = 0
        BY <3>1, <3>2, Zenon
      <4>2. Cardinality(Late') \in Nat
        BY <1>7, <3>2
      <4> QED
        BY <3>1, <4>1, <4>2
    <3> QED
      BY <1>7, <3>2, <3>3 DEF Covered
  <2>2. CASE name # "inserts"
    BY <1>1, <1>6, <1>7, <1>8, <2>2, CoverKept
  <2> QED
    BY <2>1, <2>2
<1>10. ThreadOK(t)'
  <2>1. at'[t] = "reset" => next'[t] \in 0 .. 3
    BY <1>3, <1>4
  <2>2. CallOK(t)'
    BY <1>3, <1>4, <2>1 DEF CallOK
  <2> QED
    BY <1>3, <1>4, <2>2, OutOfScan
<1>11. at' \in [Threads -> Places] /\ next' \in [Threads -> Nat]
  BY <1>1, <1>2 DEF Places
<1> QED
  BY <1>1, <1>2, <1>3, <1>6, <1>9, <1>10, <1>11, Quietly

LEMMA ScanLenStep ==
    ASSUME AliceInv, NEW t \in Threads, ScanLen(t)
    PROVE  AliceInv'
<1> DEFINE n == next[t]
           sum == found[t] + HeldCount(shards[n])
<1>1. /\ UNCHANGED <<shards, capacity, stats, call, always, ever, known>>
      /\ at[t] = "scan" /\ call[t].op = "len"
      /\ found' = [found EXCEPT ![t] = sum] /\ next' = [next EXCEPT ![t] = @ + 1]
      /\ IF n = Last
         THEN /\ at' = [at EXCEPT ![t] = "return"]
              /\ answer' = [answer EXCEPT ![t] = sum]
         ELSE UNCHANGED <<at, answer>>
  BY DEF ScanLen, Go, Tell
<1>2. /\ at \in [Threads -> Places] /\ answer \in [Threads -> Answers]
      /\ stats \in [StatNames -> Nat] /\ call \in [Threads -> Calls \cup {NoCall}]
      /\ found \in [Threads -> Nat] /\ next \in [Threads -> Nat]
      /\ always[t] \in SUBSET Keys /\ ever[t] \in SUBSET Keys
      /\ capacity \in Capacities
  BY DEF AliceInv, Shape
<1>3. /\ call[t] \in Calls /\ n \in Shards(Num) /\ answer[t] = NoCall
      /\ always[t] \subseteq ever[t] /\ IsFiniteSet(ever[t])
      /\ always[t] \subseteq HeldNow /\ HeldNow \subseteq ever[t]
      /\ found[t] <= Before(n)
      /\ Cardinality(always[t] \cap Below(n)) <= found[t]
      /\ found[t] <= Cardinality(ever[t] \cap Below(n))
  BY <1>1 DEF AliceInv, ThreadOK, CallOK, ScanOK
<1>4. /\ Num \in Nat \ {0} /\ n \in Nat /\ n < Num /\ Last = Num - 1
      /\ RoomOf(n) \in Nat /\ Before(n) \in Nat
      /\ Before(n + 1) = Before(n) + RoomOf(n)
      /\ Before(Num) = capacity /\ Below(Num) = Keys /\ capacity \in Nat
  <2>1. Num \in Nat \ {0}
    BY <1>2, Layout
  <2>2. n \in Nat /\ n < Num
    BY <1>3, <2>1 DEF Shards
  <2> HIDE DEF n
  <2> QED
    BY <1>2, <2>1, <2>2, Layout, AllBelow DEF Last
<1>5. /\ Held(shards[n]) = HeldNow \cap OfShard(n) /\ IsFiniteSet(Held(shards[n]))
      /\ HeldCount(shards[n]) <= RoomOf(n) /\ HeldCount(shards[n]) \in Nat
  <2>1. Held(shards[n]) = HeldNow \cap OfShard(n) /\ IsFiniteSet(Held(shards[n]))
    BY <1>3, HeldFacts DEF AliceInv, Filled
  <2> QED
    BY <1>3, <2>1, FS_CardinalityType DEF AliceInv, Filled, HeldCount
<1>6. found[t] \in Nat /\ sum \in Nat
  BY <1>2, <1>5
<1>7. /\ sum <= Before(n + 1)
      /\ Cardinality(always[t] \cap Below(n + 1)) <= sum
      /\ sum <= Cardinality(ever[t] \cap Below(n + 1))
  <2>1. IsFiniteSet(always[t]) /\ IsFiniteSet(ever[t])
    BY <1>3, FS_Subset
  <2> HIDE DEF n
  <2>2. /\ Cardinality(always[t] \cap Below(n + 1))
             = Cardinality(always[t] \cap Below(n)) + Cardinality(always[t] \cap OfShard(n))
        /\ Cardinality(always[t] \cap Below(n)) \in Nat
        /\ Cardinality(always[t] \cap OfShard(n)) \in Nat
    BY <1>2, <1>4, <2>1, Prefix
  <2>3. /\ Cardinality(ever[t] \cap Below(n + 1))
             = Cardinality(ever[t] \cap Below(n)) + Cardinality(ever[t] \cap OfShard(n))
        /\ Cardinality(ever[t] \cap Below(n)) \in Nat
        /\ Cardinality(ever[t] \cap OfShard(n)) \in Nat
    BY <1>2, <1>4, <2>1, Prefix
  <2>4. /\ Cardinality(always[t] \cap OfShard(n)) <= HeldCount(shards[n])
        /\ HeldCount(shards[n]) <= Cardinality(ever[t] \cap OfShard(n))
    <3>1. /\ always[t] \cap OfShard(n) \subseteq Held(shards[n])
          /\ Held(shards[n]) \subseteq ever[t] \cap OfShard(n)
      BY <1>3, <1>5
    <3>2. IsFiniteSet(ever[t] \cap OfShard(n))
      BY <2>1, FS_Subset
    <3> QED
      BY <1>5, <3>1, <3>2, FS_Subset DEF HeldCount
  <2> DEFINE h == HeldCount(shards[n])
             f == found[t]
             a == Cardinality(always[t] \cap Below(n))
             a1 == Cardinality(always[t] \cap OfShard(n))
             e == Cardinality(ever[t] \cap Below(n))
             e1 == Cardinality(ever[t] \cap OfShard(n))
             b == Before(n)
             r == RoomOf(n)
  <2>5. /\ h \in Nat /\ f \in Nat /\ a \in Nat /\ a1 \in Nat /\ e \in Nat /\ e1 \in Nat
        /\ b \in Nat /\ r \in Nat /\ sum = f + h
        /\ a <= f /\ f <= e /\ f <= b /\ h <= r /\ a1 <= h /\ h <= e1
    BY <1>3, <1>4, <1>5, <1>6, <2>2, <2>3, <2>4 DEF n
  <2>6. /\ Before(n + 1) = b + r
        /\ Cardinality(always[t] \cap Below(n + 1)) = a + a1
        /\ Cardinality(ever[t] \cap Below(n + 1)) = e + e1
    BY <1>4, <2>2, <2>3
  <2> HIDE DEF h, f, a, a1, e, e1, b, r, sum
  <2>7. sum <= b + r /\ a + a1 <= sum /\ sum <= e + e1
    BY <2>5
  <2> QED
    BY <2>6, <2>7
<1> HIDE DEF sum
<1>8. /\ found'[t] = sum /\ next'[t] = n + 1 /\ call'[t] = call[t]
      /\ always'[t] = always[t] /\ ever'[t] = ever[t]
      /\ \A u \in Threads \ {t} : UNCHANGED <<at[u], call[u], answer[u], found[u], next[u]>>
  BY <1>1, <1>2
<1>9. Covered'
  <2>1. at[t] # "count" /\ at'[t] # "count"
    BY <1>1, <1>2
  <2>2. Late' = Late
    BY <1>8, <2>1, LateKept
  <2>3. HeldNow' = HeldNow
    BY <1>1, NoneSeen
  <2> QED
    BY <1>1, <2>2, <2>3, CoverKept
<1>10. ThreadOK(t)'
  <2>1. CASE n = Last
    <3>1. at'[t] = "return" /\ answer'[t] = sum
      BY <1>1, <1>2, <2>1
    <3>2. n + 1 = Num
      BY <1>4, <2>1
    <3>3. /\ sum <= capacity /\ Cardinality(always[t]) <= sum /\ sum <= Cardinality(ever[t])
      <4>1. always[t] \cap Below(Num) = always[t] /\ ever[t] \cap Below(Num) = ever[t]
        BY <1>2, <1>4
      <4> HIDE DEF n
      <4> QED
        BY <1>4, <1>7, <3>2, <4>1
    <3>4. LenOK(t)'
      BY <1>1, <1>6, <1>8, <3>1, <3>3 DEF LenOK
    <3>5. CallOK(t)' /\ ScanOK(t)' /\ EmptyOK(t)'
      BY <1>1, <1>3, <1>8, <3>1 DEF CallOK, ScanOK, EmptyOK
    <3> QED
      BY <3>4, <3>5 DEF ThreadOK
  <2>2. CASE n # Last
    <3>1. at'[t] = "scan" /\ answer'[t] = NoCall
      BY <1>1, <1>3, <2>2
    <3>2. n + 1 \in Shards(Num)' /\ HeldNow' = HeldNow
      <4>1. Num' = Num
        BY <1>1, Fixed
      <4> QED
        BY <1>1, <1>4, <2>2, <4>1, NoneSeen DEF Shards
    <3>3. Before(next[t])' = Before(n + 1) /\ Below(next[t])' = Below(n + 1)
      <4> HIDE DEF n
      <4> QED
        BY <1>1, <1>8 DEF Before, Below, Num, ShardOf
    <3>4. CallOK(t)'
      BY <1>1, <1>3, <1>8, <3>1, <3>2 DEF CallOK
    <3>5. ScanOK(t)'
      <4>1. /\ found'[t] <= Before(next[t])'
            /\ Cardinality(always'[t] \cap Below(next[t])') <= found'[t]
            /\ found'[t] <= Cardinality(ever'[t] \cap Below(next[t])')
        <5> HIDE DEF n
        <5> QED
          BY <1>7, <1>8, <3>3
      <4> QED
        BY <1>1, <1>3, <1>8, <3>1, <3>2, <4>1 DEF ScanOK
    <3>6. LenOK(t)' /\ EmptyOK(t)'
      BY <3>1 DEF LenOK, EmptyOK
    <3> QED
      BY <3>4, <3>5, <3>6 DEF ThreadOK
  <2> QED
    BY <2>1, <2>2
<1>11. /\ at' \in [Threads -> Places] /\ answer' \in [Threads -> Answers]
       /\ found' \in [Threads -> Nat] /\ next' \in [Threads -> Nat]
  <2>1. sum \in Answers
    BY <1>6 DEF Answers
  <2> QED
    BY <1>1, <1>2, <1>6, <2>1 DEF Places
<1> QED
  BY <1>1, <1>2, <1>8, <1>9, <1>10, <1>11, Quietly

LEMMA ScanEmptyStep ==
    ASSUME AliceInv, NEW t \in Threads, ScanEmpty(t)
    PROVE  AliceInv'
<1> DEFINE n == next[t]
           empty == Held(shards[n]) = {}
           over == ~empty \/ n = Last
<1>1. /\ UNCHANGED <<shards, capacity, stats, call, found, always, ever, known>>
      /\ at[t] = "scan" /\ call[t].op = "is_empty"
      /\ next' = [next EXCEPT ![t] = @ + 1]
      /\ over => /\ at' = [at EXCEPT ![t] = "return"]
                 /\ answer' = [answer EXCEPT ![t] = Truth(empty)]
      /\ ~over => UNCHANGED <<at, answer>>
  BY DEF ScanEmpty, Go, Tell
<1>2. /\ at \in [Threads -> Places] /\ answer \in [Threads -> Answers]
      /\ stats \in [StatNames -> Nat] /\ call \in [Threads -> Calls \cup {NoCall}]
      /\ found \in [Threads -> Nat] /\ next \in [Threads -> Nat]
      /\ always[t] \in SUBSET Keys /\ ever[t] \in SUBSET Keys
      /\ capacity \in Capacities
  BY DEF AliceInv, Shape
<1>3. /\ call[t] \in Calls /\ n \in Shards(Num) /\ answer[t] = NoCall
      /\ always[t] \subseteq ever[t] /\ IsFiniteSet(ever[t])
      /\ always[t] \subseteq HeldNow /\ HeldNow \subseteq ever[t]
      /\ always[t] \cap Below(n) = {}
  BY <1>1 DEF AliceInv, ThreadOK, CallOK, ScanOK
<1>4. /\ Num \in Nat \ {0} /\ n \in Nat /\ n < Num /\ Last = Num - 1
      /\ Below(Num) = Keys /\ Below(n + 1) = Below(n) \cup OfShard(n)
  <2>1. Num \in Nat \ {0}
    BY <1>2, Layout
  <2>2. n \in Nat /\ n < Num
    BY <1>3, <2>1 DEF Shards
  <2> HIDE DEF n
  <2> QED
    BY <1>2, <2>1, <2>2, AllBelow DEF Last
<1>5. Held(shards[n]) = HeldNow \cap OfShard(n)
  BY <1>3, HeldFacts DEF AliceInv
<1>6. empty => always[t] \cap Below(n + 1) = {}
  <2> HIDE DEF n
  <2> QED
    BY <1>3, <1>4, <1>5
<1>7. ~empty => ever[t] # {}
  BY <1>3, <1>5
<1>8. /\ next'[t] = n + 1 /\ call'[t] = call[t]
      /\ always'[t] = always[t] /\ ever'[t] = ever[t]
      /\ \A u \in Threads \ {t} : UNCHANGED <<at[u], call[u], answer[u], found[u], next[u]>>
  <2> HIDE DEF over, empty
  <2> QED
    BY <1>1, <1>2
<1>9. Covered'
  <2> HIDE DEF over, empty
  <2>1. at[t] # "count" /\ at'[t] # "count"
    BY <1>1, <1>2
  <2>2. Late' = Late
    BY <1>8, <2>1, LateKept
  <2>3. HeldNow' = HeldNow
    BY <1>1, NoneSeen
  <2> QED
    BY <1>1, <2>2, <2>3, CoverKept
<1>10. ThreadOK(t)'
  <2>1. CASE over
    <3>1. at'[t] = "return" /\ answer'[t] = Truth(empty)
      <4> HIDE DEF over, empty
      <4> QED
        BY <1>1, <1>2, <2>1
    <3>2. EmptyOK(t)'
      <4>1. CASE empty
        <5>1. always[t] = {}
          BY <1>2, <1>4, <1>6, <2>1, <4>1
        <5>2. answer'[t] = Yes
          BY <3>1, <4>1 DEF Truth
        <5> QED
          BY <1>8, <5>1, <5>2 DEF EmptyOK
      <4>2. CASE ~empty
        <5>1. answer'[t] = No /\ No # Yes
          BY <3>1, <4>2, CacheAssumption DEF Truth
        <5> QED
          BY <1>7, <1>8, <4>2, <5>1 DEF EmptyOK
      <4> QED
        BY <4>1, <4>2
    <3>3. CallOK(t)' /\ ScanOK(t)' /\ LenOK(t)'
      BY <1>1, <1>3, <1>8, <3>1 DEF CallOK, ScanOK, LenOK
    <3> QED
      BY <3>2, <3>3 DEF ThreadOK
  <2>2. CASE ~over
    <3>0. empty /\ n # Last
      BY <2>2
    <3> HIDE DEF over, empty
    <3>1. at'[t] = "scan" /\ answer'[t] = NoCall
      BY <1>1, <1>3, <2>2
    <3>2. n + 1 \in Shards(Num)' /\ HeldNow' = HeldNow
      <4>1. Num' = Num
        BY <1>1, Fixed
      <4> QED
        BY <1>1, <1>4, <3>0, <4>1, NoneSeen DEF Shards
    <3>3. Below(next[t])' = Below(n + 1)
      <4> HIDE DEF n
      <4> QED
        BY <1>1, <1>8 DEF Before, Below, Num, ShardOf
    <3>4. CallOK(t)'
      BY <1>1, <1>3, <1>8, <3>1, <3>2 DEF CallOK
    <3>5. ScanOK(t)'
      <4>1. always'[t] \cap Below(next[t])' = {}
        <5> HIDE DEF n
        <5> QED
          BY <1>6, <1>8, <3>0, <3>3
      <4> QED
        BY <1>1, <1>3, <1>8, <3>1, <3>2, <4>1 DEF ScanOK
    <3>6. LenOK(t)' /\ EmptyOK(t)'
      BY <3>1 DEF LenOK, EmptyOK
    <3> QED
      BY <3>4, <3>5, <3>6 DEF ThreadOK
  <2> QED
    BY <2>1, <2>2
<1>11. /\ at' \in [Threads -> Places] /\ answer' \in [Threads -> Answers]
       /\ next' \in [Threads -> Nat]
  <2>1. Truth(empty) \in Answers
    BY DEF Answers, Truth
  <2> HIDE DEF over, empty
  <2> QED
    BY <1>1, <1>2, <2>1 DEF Places
<1> HIDE DEF over, empty
<1> QED
  BY <1>1, <1>2, <1>8, <1>9, <1>10, <1>11, Quietly

LEMMA ReturnStep ==
    ASSUME AliceInv, NEW t \in Threads, Return(t)
    PROVE  AliceInv'
<1>1. /\ UNCHANGED <<shards, capacity, stats, known>>
      /\ at[t] = "return" /\ at' = [at EXCEPT ![t] = "idle"]
      /\ call' = [call EXCEPT ![t] = NoCall] /\ answer' = [answer EXCEPT ![t] = NoCall]
      /\ found' = [found EXCEPT ![t] = 0] /\ next' = [next EXCEPT ![t] = 0]
      /\ always' = [always EXCEPT ![t] = {}] /\ ever' = [ever EXCEPT ![t] = {}]
  BY DEF Return, Go, Tell
<1>2. Shape /\ Filled
  BY DEF AliceInv
<1>3. HeldNow' = HeldNow /\ IsFiniteSet(HeldNow)
  BY <1>1, <1>2, Contained DEF HeldNow
<1>4. /\ at'[t] = "idle" /\ answer'[t] = NoCall
      /\ always'[t] = {} /\ ever'[t] = {}
      /\ \A u \in Threads \ {t} :
           /\ UNCHANGED <<at[u], call[u], answer[u], found[u], next[u]>>
           /\ always'[u] = always[u] /\ ever'[u] = ever[u]
  BY <1>1, <1>2 DEF Shape
<1>5. Shape'
  <2>1. (shards \in [Shards(Num) -> Maps])'
    BY <1>1, <1>2 DEF Shape, Num
  <2> QED
    BY <1>1, <1>2, <2>1 DEF Shape, Places, Answers
<1>6. Filled'
  BY <1>1, <1>2 DEF Filled, Num, OfShard, ShardOf, RoomOf
<1>7. Covered'
  <2>1. at'[t] # "count" /\ at[t] # "count"
    BY <1>1, <1>4
  <2>2. Late' = Late
    BY <1>4, <2>1, LateKept
  <2> QED
    BY <1>1, <1>3, <2>2, CoverKept
<1>8. ThreadOK(t)'
  BY <1>4, FS_EmptySet DEF ThreadOK, CallOK, ScanOK, LenOK, EmptyOK
<1>9. \A u \in Threads \ {t} : Seen(u)
  <2>1. ASSUME NEW u \in Threads, u # t
        PROVE  Seen(u)
    <3>1. at[u] = "scan" => always[u] \subseteq HeldNow /\ HeldNow \subseteq ever[u]
      BY DEF AliceInv, ThreadOK, ScanOK
    <3> QED
      BY <1>3, <1>4, <2>1, <3>1 DEF Seen
  <2> QED
    BY <2>1
<1> QED
  BY <1>1, <1>3, <1>4, <1>5, <1>6, <1>7, <1>8, <1>9, Together

LEMMA ClearStep ==
    ASSUME AliceInv, Clear
    PROVE  AliceInv'
<1>1. /\ UNCHANGED <<capacity, at, call, answer, found, next, always, ever>>
      /\ \A t \in Threads : at[t] = "idle"
      /\ shards' = [s \in Shards(Num) |-> EmptyMap]
      /\ stats' = [c \in StatNames |-> 0] /\ known' = {}
  BY DEF Clear
<1>2. EmptyMap \in Maps /\ Held(EmptyMap) = {} /\ IsFiniteSet({}) /\ Cardinality({}) = 0
  BY FS_EmptySet DEF EmptyMap, Maps, Held
<1>3. Num' = Num /\ capacity \in Capacities /\ Shape
  BY <1>1, Fixed DEF AliceInv, Shape
<1>4. Shape'
  <2>1. (shards \in [Shards(Num) -> Maps])'
    BY <1>1, <1>2, <1>3
  <2>2. stats' \in [StatNames -> Nat]
    BY <1>1
  <2> QED
    BY <1>1, <1>3, <2>1, <2>2 DEF Shape
<1>5. Filled'
  <2>1. ASSUME NEW s \in Shards(Num)
        PROVE  Held(shards'[s]) = {} /\ HeldCount(shards'[s]) = 0 /\ RoomOf(s) \in Nat
    <3>1. s \in Nat
      BY <1>3, Layout DEF Shards
    <3> QED
      BY <1>1, <1>2, <1>3, <3>1, Layout DEF HeldCount
  <2>2. \A n : RoomOf(n)' = RoomOf(n)
    BY <1>1, Fixed
  <2>3. ASSUME NEW s \in Shards(Num)
        PROVE  /\ Held(shards[s])' \subseteq OfShard(s)'
               /\ IsFiniteSet(Held(shards[s])') /\ HeldCount(shards[s])' <= RoomOf(s)'
    <3>1. Held(shards[s])' = Held(shards'[s]) /\ HeldCount(shards[s])' = HeldCount(shards'[s])
      BY DEF Held, HeldCount
    <3> QED
      BY <1>2, <2>1, <2>2, <3>1
  <2> QED
    BY <1>3, <2>3 DEF Filled, Shards
<1>6. Covered'
  <2>1. HeldNow' = {}
    BY <1>1, <1>2 DEF HeldNow, HeldBy
  <2>2. Late' = {} /\ stats'["inserts"] = 0
    BY <1>1, Names DEF Late
  <2> QED
    BY <1>2, <2>1, <2>2 DEF Covered
<1>7. ASSUME NEW t \in Threads
      PROVE  ThreadOK(t)'
  <2>1. at[t] = "idle" /\ ThreadOK(t)
    BY <1>1 DEF AliceInv
  <2> QED
    BY <1>1, <2>1 DEF ThreadOK, CallOK, ScanOK, LenOK, EmptyOK
<1> QED
  BY <1>4, <1>5, <1>6, <1>7 DEF AliceInv

LEMMA StutterStep ==
    ASSUME AliceInv, UNCHANGED vars
    PROVE  AliceInv'
<1>1. UNCHANGED <<shards, capacity, stats, at, call, answer, found, next, always, ever, known>>
  BY DEF vars
<1>2. Shape'
  BY <1>1 DEF AliceInv, Shape, Num
<1>3. Filled'
  BY <1>1, NoneSeen
<1>4. Covered'
  <2>1. Late' = Late /\ HeldNow' = HeldNow
    BY <1>1 DEF Late, HeldNow
  <2> QED
    BY <1>1, <2>1 DEF AliceInv, Covered
<1>5. ASSUME NEW t \in Threads
      PROVE  ThreadOK(t)'
  <2>1. IsFiniteSet(HeldNow') /\ Seen(t)
    BY <1>1, NoneSeen
  <2> QED
    BY <1>1, <2>1, Bystander
<1> QED
  BY <1>2, <1>3, <1>4, <1>5 DEF AliceInv

LEMMA NextStep ==
    ASSUME AliceInv, [Next]_vars
    PROVE  AliceInv'
<1>1. ASSUME NEW t \in Threads, Step(t)
      PROVE  AliceInv'
  <2>1. CASE Get(t) \/ PutNowhere(t) \/ Contains(t)
    BY <2>1, ReadStep
  <2>2. CASE Put(t) \/ Remove(t)
    BY <2>2, WriteStep
  <2>3. CASE Count(t)
    BY <2>3, CountStep
  <2>4. CASE ScanLen(t)
    BY <2>4, ScanLenStep
  <2>5. CASE ScanEmpty(t)
    BY <2>5, ScanEmptyStep
  <2>6. CASE ResetOne(t)
    BY <2>6, ResetStep
  <2>7. CASE Return(t)
    BY <2>7, ReturnStep
  <2> QED
    BY <1>1, <2>1, <2>2, <2>3, <2>4, <2>5, <2>6, <2>7 DEF Step
<1>2. ASSUME NEW t \in Threads, NEW c \in Calls, Begin(t, c)
      PROVE  AliceInv'
  BY <1>2, BeginStep
<1> QED
  BY <1>1, <1>2, ClearStep, StutterStep DEF Next

-----------------------------------------------------------------------------
(* The theorems.                                                           *)

LEMMA AliceInvariance == Spec => []AliceInv
<1>1. Init => AliceInv
  BY InitStep
<1>2. AliceInv /\ [Next]_vars => AliceInv'
  BY NextStep
<1> QED
  BY <1>1, <1>2, PTL DEF Spec

\* The state of a cache keeps its type, whatever its threads do: a scan never
\* leaves the shards there are (cache.rs, len and is_empty), nor a reset the
\* four counters.
THEOREM AliceTypeCorrect == Spec => []TypeOK
<1>1. AliceInv => TypeOK
  BY InvImplies
<1> QED
  BY <1>1, AliceInvariance, PTL

\* However many shards and threads there are, what len answers is within the
\* capacity, counts each key that was held throughout, and none that never was.
THEOREM LenBracketed == Spec => []LenIsBracketed
<1>1. AliceInv => LenIsBracketed
  BY InvImplies
<1> QED
  BY <1>1, AliceInvariance, PTL

\* is_empty neither misses a key that was held throughout nor sees one where
\* there never was any.
THEOREM EmptyBracketed == Spec => []EmptyIsBracketed
<1>1. AliceInv => EmptyIsBracketed
  BY InvImplies
<1> QED
  BY <1>1, AliceInvariance, PTL

\* Every key held is accounted for: it was there when `inserts` was last stored
\* 0, or a put of it has been counted since, or is about to be.
THEOREM InsertsCover == Spec => []InsertsCoverContents
<1>1. AliceInv => InsertsCoverContents
  BY InvImplies
<1> QED
  BY <1>1, AliceInvariance, PTL

-----------------------------------------------------------------------------
(* The refinement: each step is a step of LinearCache or none.             *)

ShardRoom == capacity \div Num
Phases == [t \in Threads |-> Phase(t)]

\* The one map holds what the shards hold, within the capacity.
LEMMA Whole ==
    AliceInv => /\ Linear!Held(Union) = HeldNow
                /\ IsFiniteSet(HeldNow) /\ Cardinality(HeldNow) <= capacity
                /\ Linear!HeldCount(Union) <= capacity
                /\ Linear!HeldCount(Union) = Cardinality(HeldNow)
<1> SUFFICES ASSUME AliceInv
             PROVE  /\ Linear!Held(Union) = HeldNow
                    /\ IsFiniteSet(HeldNow) /\ Cardinality(HeldNow) <= capacity
                    /\ Linear!HeldCount(Union) <= capacity
                    /\ Linear!HeldCount(Union) = Cardinality(HeldNow)
  OBVIOUS
<1>1. IsFiniteSet(HeldNow) /\ Cardinality(HeldNow) <= capacity
  BY Contained DEF AliceInv
<1>2. Linear!Held(Union) = HeldNow
  BY HeldFacts DEF AliceInv, Union, Linear!Held
<1>3. Linear!HeldCount(Union) = Cardinality(HeldNow)
  BY <1>2 DEF Linear!HeldCount, Linear!Cardinality, Cardinality
<1> QED
  BY <1>1, <1>2, <1>3

LEMMA WholeNext ==
    AliceInv' => /\ (Linear!Held(Union) = HeldNow)'
                 /\ (IsFiniteSet(HeldNow) /\ Cardinality(HeldNow) <= capacity)'
                 /\ (Linear!HeldCount(Union) <= capacity)'
                 /\ (Linear!HeldCount(Union) = Cardinality(HeldNow))'
  BY Whole, PTL

LEMMA RoomStays ==
    ASSUME UNCHANGED capacity
    PROVE  ShardRoom' = ShardRoom
  BY DEF ShardRoom, Num

\* The phases, when one thread at most moves.
LEMMA PhasesMove ==
    ASSUME AliceInv, NEW t \in Threads, NEW stage, at' = [at EXCEPT ![t] = stage]
    PROVE  /\ Phases[t] = Phase(t)
           /\ Phases' = [Phases EXCEPT ![t] =
                           IF stage = "idle" THEN "idle"
                           ELSE IF stage \in {"count", "return"} THEN "answered"
                           ELSE "called"]
<1>1. at \in [Threads -> Places]
  BY DEF AliceInv, Shape
<1>2. \A u \in Threads : at'[u] = IF u = t THEN stage ELSE at[u]
  BY <1>1
<1> QED
  BY <1>2 DEF Phases, Phase

\* Rewriting one shard, as the one map sees it.
LEMMA UnionStore ==
    ASSUME AliceInv, NEW k \in Keys, NEW v, UNCHANGED capacity,
           shards' = [shards EXCEPT ![ShardOf(k)] = Store(shards[ShardOf(k)], k, v)]
    PROVE  Union' = [Union EXCEPT ![k] = v]
<1>1. \A x \in Keys : ShardOf(x) \in Shards(Num) /\ ShardOf(x)' = ShardOf(x)
  BY Layout, Fixed DEF AliceInv, Shape
<1>2. shards \in [Shards(Num) -> Maps]
  BY DEF AliceInv, Shape
<1>3. \A x \in Keys : shards'[ShardOf(x)][x] = IF x = k THEN v ELSE shards[ShardOf(x)][x]
  BY <1>1, <1>2 DEF Store, Maps
<1>4. \A x \in Keys : shards'[ShardOf(x)'][x] = IF x = k THEN v ELSE shards[ShardOf(x)][x]
  BY <1>1, <1>3
<1> QED
  BY <1>4 DEF Union

LEMMA UnionSwap ==
    ASSUME AliceInv, NEW k \in Keys, NEW v, NEW lost \in Keys, UNCHANGED capacity,
           ShardOf(lost) = ShardOf(k),
           shards' = [shards EXCEPT ![ShardOf(k)] =
                        Store(Forget(shards[ShardOf(k)], lost), k, v)]
    PROVE  Union' = [[Union EXCEPT ![lost] = NoValue] EXCEPT ![k] = v]
<1>1. \A x \in Keys : ShardOf(x) \in Shards(Num) /\ ShardOf(x)' = ShardOf(x)
  BY Layout, Fixed DEF AliceInv, Shape
<1>2. shards \in [Shards(Num) -> Maps]
  BY DEF AliceInv, Shape
<1>3. \A x \in Keys : shards'[ShardOf(x)][x] =
                        IF x = k THEN v ELSE IF x = lost THEN NoValue
                        ELSE shards[ShardOf(x)][x]
  BY <1>1, <1>2 DEF Store, Forget, Maps
<1>4. \A x \in Keys : shards'[ShardOf(x)'][x] =
                        IF x = k THEN v ELSE IF x = lost THEN NoValue
                        ELSE shards[ShardOf(x)][x]
  BY <1>1, <1>3
<1> QED
  BY <1>4 DEF Union

LEMMA LinearInit == Init => Linear!Init
<1> SUFFICES ASSUME Init
             PROVE  Linear!Init
  OBVIOUS
<1>1. capacity \in Capacities /\ \A k \in Keys : ShardOf(k) \in Shards(Num)
  BY Layout DEF Init
<1>2. Union = Linear!EmptyMap
  BY <1>1 DEF Init, Union, EmptyMap, Linear!EmptyMap
<1>3. capacity \div Num \in 0 .. capacity
  BY <1>1, Layout
<1>4. [t \in Threads |-> Phase(t)] = [t \in Threads |-> "idle"]
  BY DEF Init, Phase
<1> QED
  BY <1>1, <1>2, <1>3, <1>4 DEF Init, Linear!Init

LEMMA LinearBegin ==
    ASSUME AliceInv, NEW t \in Threads, NEW c \in Calls, Begin(t, c)
    PROVE  Linear!Invoke(t, c)
<1> DEFINE stage == IF c.op \in {"len", "is_empty"} THEN "scan"
                    ELSE IF c.op = "reset" THEN "reset" ELSE "shard"
<1>1. /\ at[t] = "idle" /\ at' = [at EXCEPT ![t] = stage]
      /\ call' = [call EXCEPT ![t] = c]
      /\ UNCHANGED <<shards, capacity, answer>>
  BY DEF Begin, Go
<1>2. stage \notin {"idle", "count", "return"}
  OBVIOUS
<1> HIDE DEF stage
<1>3. Phases[t] = "idle" /\ Phases' = [Phases EXCEPT ![t] = "called"]
  BY <1>1, <1>2, PhasesMove DEF Phase
<1>4. Union' = Union /\ ShardRoom' = ShardRoom
  BY <1>1 DEF Union, ShardRoom, Num, ShardOf
<1> QED
  BY <1>1, <1>3, <1>4 DEF Linear!Invoke, Phases, ShardRoom

\* A call on a key, or a whole scan or reset, answers.
LEMMA Answered ==
    ASSUME AliceInv, NEW t \in Threads, NEW a, NEW stage \in {"count", "return"},
           at[t] \in {"shard", "scan", "reset"},
           at' = [at EXCEPT ![t] = stage], answer' = [answer EXCEPT ![t] = a],
           UNCHANGED <<capacity, call>>
    PROVE  Linear!Answer(t, a)
<1>1. Phases[t] = "called" /\ Phases' = [Phases EXCEPT ![t] = "answered"]
  BY PhasesMove DEF Phase
<1>2. ShardRoom' = ShardRoom
  BY RoomStays
<1> QED
  BY <1>1, <1>2 DEF Linear!Answer, Phases, ShardRoom

\* The map under the one key of a call.
LEMMA UnionAt ==
    ASSUME AliceInv, NEW t \in Threads, at[t] = "shard"
    PROVE  /\ call[t].key \in Keys
           /\ Union[call[t].key] = Mine(t)[call[t].key]
           /\ call[t].key \in Held(Mine(t)) <=> call[t].key \in Linear!Held(Union)
<1>1. call[t].key \in Keys
  BY KeyFacts
<1>2. Union[call[t].key] = Mine(t)[call[t].key]
  BY <1>1 DEF Union, Mine
<1> QED
  BY <1>1, <1>2 DEF Held, Linear!Held

LEMMA LinearRead ==
    ASSUME AliceInv, NEW t \in Threads
    PROVE  /\ Get(t) => Linear!Get(t)
           /\ Contains(t) => Linear!Contains(t)
           /\ PutNowhere(t) => Linear!Put(t)
<1>1. ASSUME UNCHANGED <<shards, capacity>>
      PROVE  Union' = Union
  BY <1>1 DEF Union, ShardOf, Num
<1>2. ASSUME Get(t)
      PROVE  Linear!Get(t)
  <2>1. /\ at[t] = "shard" /\ call[t].op = "get" /\ UNCHANGED <<shards, capacity, call>>
        /\ answer' = [answer EXCEPT ![t] = Union[call[t].key]]
        /\ at' = [at EXCEPT ![t] = "count"]
    BY <1>2, UnionAt DEF Get, AtShard, Tell, Go
  <2>2. Linear!Answer(t, Union[call[t].key])
    BY <2>1, Answered
  <2> QED
    BY <1>1, <2>1, <2>2 DEF Linear!Get
<1>3. ASSUME Contains(t)
      PROVE  Linear!Contains(t)
  <2> DEFINE b == call[t].key \in Held(Mine(t))
             b2 == call[t].key \in Linear!Held(Union)
  <2>1. /\ at[t] = "shard" /\ call[t].op = "contains" /\ UNCHANGED <<shards, capacity, call>>
        /\ answer' = [answer EXCEPT ![t] = Truth(b)]
        /\ at' = [at EXCEPT ![t] = "return"]
    BY <1>3 DEF Contains, AtShard, Tell, Go
  <2>2. b <=> b2
    BY <2>1, UnionAt
  <2>3. Truth(b) = Linear!Truth(b2)
    BY <2>2 DEF Truth, Linear!Truth
  <2> HIDE DEF b
  <2>4. answer' = [answer EXCEPT ![t] = Linear!Truth(b2)]
    BY <2>1, <2>3
  <2>5. Linear!Answer(t, Linear!Truth(b2))
    <3> HIDE DEF b2
    <3> QED
      BY <2>1, <2>4, Answered
  <2> QED
    BY <1>1, <2>1, <2>5 DEF Linear!Contains
<1>4. ASSUME PutNowhere(t)
      PROVE  Linear!Put(t)
  <2>1. /\ at[t] = "shard" /\ call[t].op = "put" /\ capacity = 0
        /\ UNCHANGED <<shards, capacity, call, answer>>
        /\ at' = [at EXCEPT ![t] = "return"]
    BY <1>4 DEF PutNowhere, AtShard, Go
  <2>2. answer \in [Threads -> Answers] /\ answer[t] = NoCall
    BY <2>1, KeyFacts DEF AliceInv, Shape
  <2>3. answer' = [answer EXCEPT ![t] = NoCall]
    BY <2>1, <2>2
  <2>4. Linear!Answer(t, NoCall)
    BY <2>1, <2>3, Answered
  <2> QED
    BY <1>1, <2>1, <2>4 DEF Linear!Put
<1> QED
  BY <1>2, <1>3, <1>4

LEMMA LinearRemove ==
    ASSUME AliceInv, NEW t \in Threads, Remove(t)
    PROVE  Linear!Remove(t)
<1> DEFINE k == call[t].key
<1>1. /\ at[t] = "shard" /\ call[t].op = "remove" /\ UNCHANGED <<capacity, call>>
      /\ answer' = [answer EXCEPT ![t] = Union[k]]
      /\ at' = [at EXCEPT ![t] = "return"]
      /\ k \in Keys
      /\ shards' = [shards EXCEPT ![ShardOf(k)] = Store(shards[ShardOf(k)], k, NoValue)]
  BY UnionAt DEF Remove, AtShard, Tell, Go, SetShard, Mine, Forget, Store
<1> HIDE DEF k
<1>2. Union' = [Union EXCEPT ![k] = NoValue]
  BY <1>1, UnionStore
<1>3. Linear!Answer(t, Union[k])
  BY <1>1, Answered
<1> QED
  BY <1>1, <1>2, <1>3 DEF Linear!Remove, Linear!Forget, k

LEMMA LinearPut ==
    ASSUME AliceInv, AliceInv', NEW t \in Threads, Put(t)
    PROVE  Linear!Put(t)
<1> DEFINE k == call[t].key
           s == ShardOf(k)
           v == call[t].value
           room == RoomOf(s)
<1>1. /\ at[t] = "shard" /\ call[t].op = "put" /\ UNCHANGED <<capacity, call, answer>>
      /\ at' = [at EXCEPT ![t] = "count"] /\ capacity > 0
      /\ \E m \in AfterPut(shards[s], room, k, v) : shards' = [shards EXCEPT ![s] = m]
  BY DEF Put, AtShard, Go, SetShard
<1>2. /\ k \in Keys /\ s \in Shards(Num) /\ v \in Values /\ answer[t] = NoCall
      /\ shards[s] \in Maps /\ IsFiniteSet(Held(shards[s])) /\ HeldCount(shards[s]) <= room
      /\ Held(shards[s]) \subseteq OfShard(s)
  BY <1>1, KeyFacts DEF Mine
<1>3. /\ room \in Nat \ {0} /\ capacity \div Num <= room /\ capacity \div Num \in Nat
      /\ capacity \in Nat
  <2>1. capacity \in Capacities
    BY DEF AliceInv, Shape
  <2>2. Num \in Nat \ {0}
    BY <2>1, Layout
  <2>3. s \in Nat
    BY <1>2, <2>2 DEF Shards
  <2> HIDE DEF s
  <2> QED
    BY <1>1, <1>2, <2>1, <2>3, Layout
<1>4. Linear!Answer(t, NoCall)
  <2>1. answer' = [answer EXCEPT ![t] = NoCall]
    BY <1>1, <1>2 DEF AliceInv, Shape
  <2> HIDE DEF k, s, v, room
  <2> QED
    BY <1>1, <2>1, Answered
<1> HIDE DEF k, s, v, room
<1>5. PICK m \in AfterPut(shards[s], room, k, v) : shards' = [shards EXCEPT ![s] = m]
  BY <1>1
<1>6. \/ m = Store(shards[s], k, v)
      \/ /\ k \notin Held(shards[s]) /\ HeldCount(shards[s]) >= room
         /\ \E lost \in Held(shards[s]) : m = Store(Forget(shards[s], lost), k, v)
  BY <1>2, <1>3, PutFacts
<1>7. /\ Linear!HeldCount(Union)' <= capacity
      /\ Linear!Held(Union) = HeldNow
      /\ IsFiniteSet(HeldNow) /\ Linear!HeldCount(Union) = Cardinality(HeldNow)
  BY <1>1, Whole, WholeNext
<1>8. Held(shards[s]) = HeldNow \cap OfShard(s)
  BY <1>2, HeldFacts DEF AliceInv
<1>9. CASE m = Store(shards[s], k, v)
  <2>1. Union' = [Union EXCEPT ![k] = v]
    BY <1>1, <1>2, <1>5, <1>9, UnionStore DEF s
  <2> QED
    BY <1>1, <1>4, <1>7, <2>1 DEF Linear!Put, Linear!Store, k, v
<1>10. ASSUME k \notin Held(shards[s]), HeldCount(shards[s]) >= room,
              NEW lost \in Held(shards[s]), m = Store(Forget(shards[s], lost), k, v)
       PROVE  Linear!Put(t)
  <2>1. lost \in Keys /\ ShardOf(lost) = s /\ lost \in HeldNow
    BY <1>2, <1>8 DEF OfShard
  <2>2. Union' = [[Union EXCEPT ![lost] = NoValue] EXCEPT ![k] = v]
    <3>1. /\ ShardOf(lost) = ShardOf(k)
          /\ shards' = [shards EXCEPT ![ShardOf(k)] =
                           Store(Forget(shards[ShardOf(k)], lost), k, v)]
      BY <1>5, <1>10, <2>1 DEF s
    <3>2. UNCHANGED capacity
      BY <1>1
    <3> QED
      BY <1>2, <2>1, <3>1, <3>2, UnionSwap
  <2>3. k \notin Linear!Held(Union)
    BY <1>2, <1>7, <1>8, <1>10 DEF OfShard, s
  <2>4. Linear!HeldCount(Union) >= ShardRoom
    <3>1. /\ Cardinality(Held(shards[s])) \in Nat /\ Cardinality(HeldNow) \in Nat
          /\ Cardinality(Held(shards[s])) <= Cardinality(HeldNow)
      BY <1>2, <1>7, <1>8, FS_Subset, FS_CardinalityType
    <3>2. /\ ShardRoom <= room /\ ShardRoom \in Nat /\ room \in Nat
          /\ Cardinality(Held(shards[s])) >= room
      BY <1>3, <1>10 DEF ShardRoom, HeldCount
    <3>3. Cardinality(HeldNow) >= ShardRoom
      BY <3>1, <3>2
    <3> QED
      BY <1>7, <3>3
  <2>5. lost \in Linear!Held(Union)
    BY <1>7, <2>1
  <2> QED
    BY <1>1, <1>4, <2>2, <2>3, <2>4, <2>5
       DEF Linear!Put, Linear!Store, Linear!Forget, k, v, ShardRoom
<1> QED
  BY <1>6, <1>9, <1>10

LEMMA LinearScan ==
    ASSUME AliceInv, AliceInv', NEW t \in Threads, ScanLen(t) \/ ScanEmpty(t)
    PROVE  Linear!Scan(t) \/ UNCHANGED Linear!vars
<1>1. UNCHANGED <<shards, capacity, call>> /\ at[t] = "scan"
  BY DEF ScanLen, ScanEmpty
<1>2. Union' = Union /\ ShardRoom' = ShardRoom
  BY <1>1, RoomStays DEF Union, ShardOf, Num
<1>3. ASSUME UNCHANGED <<at, answer>>
      PROVE  UNCHANGED Linear!vars
  <2>1. Phases' = Phases
    BY <1>3 DEF Phases, Phase
  <2> QED
    BY <1>1, <1>2, <1>3, <2>1 DEF Linear!vars, Phases, ShardRoom
<1>4. ASSUME NEW a, at' = [at EXCEPT ![t] = "return"],
             answer' = [answer EXCEPT ![t] = a],
             \/ call[t].op = "len" /\ a \in 0 .. capacity
             \/ call[t].op = "is_empty" /\ a \in {Yes, No}
      PROVE  Linear!Scan(t)
  <2>1. Linear!Answer(t, a)
    BY <1>1, <1>4, Answered
  <2>2. Union' = Union
    BY <1>2
  <2> QED
    BY <1>4, <2>1, <2>2 DEF Linear!Scan
<1>5. CASE ScanLen(t)
  <2> DEFINE sum == found[t] + HeldCount(shards[next[t]])
  <2>1. /\ call[t].op = "len"
        /\ \/ UNCHANGED <<at, answer>>
           \/ at' = [at EXCEPT ![t] = "return"] /\ answer' = [answer EXCEPT ![t] = sum]
    BY <1>5 DEF ScanLen, Go, Tell
  <2> HIDE DEF sum
  <2>2. ASSUME at' = [at EXCEPT ![t] = "return"], answer' = [answer EXCEPT ![t] = sum]
        PROVE  sum \in 0 .. capacity
    <3>1. at'[t] = "return" /\ answer'[t] = sum /\ call'[t].op = "len"
      BY <1>1, <2>1, <2>2 DEF AliceInv, Shape
    <3>2. answer'[t] \in Nat /\ answer'[t] <= capacity'
      BY <3>1 DEF AliceInv, ThreadOK, LenOK
    <3>3. capacity \in Nat
      BY Layout DEF AliceInv, Shape
    <3> QED
      BY <1>1, <3>1, <3>2, <3>3
  <2> QED
    BY <1>3, <1>4, <2>1, <2>2
<1>6. CASE ScanEmpty(t)
  <2> DEFINE empty == Held(shards[next[t]]) = {}
  <2>1. /\ call[t].op = "is_empty"
        /\ \/ UNCHANGED <<at, answer>>
           \/ /\ at' = [at EXCEPT ![t] = "return"]
              /\ answer' = [answer EXCEPT ![t] = Truth(empty)]
    BY <1>6 DEF ScanEmpty, Go, Tell
  <2>2. Truth(empty) \in {Yes, No}
    BY DEF Truth
  <2> HIDE DEF empty
  <2> QED
    BY <1>3, <1>4, <2>1, <2>2
<1> QED
  BY <1>5, <1>6

LEMMA LinearReset ==
    ASSUME AliceInv, NEW t \in Threads, ResetOne(t)
    PROVE  Linear!Reset(t) \/ UNCHANGED Linear!vars
<1>1. /\ UNCHANGED <<shards, capacity, call, answer>> /\ at[t] = "reset"
      /\ at' = [at EXCEPT ![t] = IF next[t] = 3 THEN "return" ELSE "reset"]
  BY DEF ResetOne, Go
<1>2. Union' = Union /\ ShardRoom' = ShardRoom
  BY <1>1, RoomStays DEF Union, ShardOf, Num
<1>3. /\ call[t].op = "reset" /\ answer[t] = NoCall
      /\ at \in [Threads -> Places] /\ answer \in [Threads -> Answers]
  BY <1>1 DEF AliceInv, Shape, ThreadOK, CallOK
<1>4. CASE next[t] = 3
  <2>1. answer' = [answer EXCEPT ![t] = NoCall]
    BY <1>1, <1>3
  <2>2. Linear!Answer(t, NoCall)
    BY <1>1, <1>4, <2>1, Answered
  <2> QED
    BY <1>2, <1>3, <2>2 DEF Linear!Reset
<1>5. CASE next[t] # 3
  <2>1. at' = at
    BY <1>1, <1>3, <1>5
  <2>2. Phases' = Phases
    BY <2>1 DEF Phases, Phase
  <2> QED
    BY <1>1, <1>2, <2>2 DEF Linear!vars, Phases, ShardRoom
<1> QED
  BY <1>4, <1>5

LEMMA LinearCount ==
    ASSUME AliceInv, NEW t \in Threads, Count(t)
    PROVE  UNCHANGED Linear!vars
<1>1. /\ UNCHANGED <<shards, capacity, call, answer>>
      /\ at[t] = "count" /\ at' = [at EXCEPT ![t] = "return"]
  BY DEF Count, Go
<1>2. Union' = Union /\ ShardRoom' = ShardRoom
  BY <1>1, RoomStays DEF Union, ShardOf, Num
<1>3. \A u \in Threads : at'[u] = IF u = t THEN "return" ELSE at[u]
  BY <1>1 DEF AliceInv, Shape
<1>4. Phases' = Phases
  BY <1>1, <1>3 DEF Phases, Phase
<1> QED
  BY <1>1, <1>2, <1>4 DEF Linear!vars, Phases, ShardRoom

LEMMA LinearReturn ==
    ASSUME AliceInv, NEW t \in Threads, Return(t)
    PROVE  Linear!Return(t)
<1>1. /\ UNCHANGED <<shards, capacity>>
      /\ at[t] = "return" /\ at' = [at EXCEPT ![t] = "idle"]
      /\ call' = [call EXCEPT ![t] = NoCall] /\ answer' = [answer EXCEPT ![t] = NoCall]
  BY DEF Return, Go, Tell
<1>2. Union' = Union /\ ShardRoom' = ShardRoom
  BY <1>1, RoomStays DEF Union, ShardOf, Num
<1>3. Phases[t] = "answered" /\ Phases' = [Phases EXCEPT ![t] = "idle"]
  BY <1>1, PhasesMove DEF Phase
<1> QED
  BY <1>1, <1>2, <1>3 DEF Linear!Return, Phases, ShardRoom

LEMMA LinearClear ==
    ASSUME AliceInv, Clear
    PROVE  Linear!Clear
<1>1. /\ UNCHANGED <<capacity, at, call, answer>>
      /\ \A t \in Threads : at[t] = "idle"
      /\ shards' = [s \in Shards(Num) |-> EmptyMap]
  BY DEF Clear
<1>2. ShardRoom' = ShardRoom /\ Phases' = Phases /\ \A t \in Threads : Phases[t] = "idle"
  BY <1>1, RoomStays DEF Phases, Phase
<1>3. \A k \in Keys : ShardOf(k) \in Shards(Num) /\ ShardOf(k)' = ShardOf(k)
  BY <1>1, Layout, Fixed DEF AliceInv, Shape
<1>4. Union' = Linear!EmptyMap
  <2>1. \A k \in Keys : shards'[ShardOf(k)'][k] = NoValue
    BY <1>1, <1>3 DEF EmptyMap
  <2> QED
    BY <2>1 DEF Union, Linear!EmptyMap
<1> QED
  BY <1>1, <1>2, <1>4 DEF Linear!Clear, Phases, ShardRoom

LEMMA LinearStep ==
    ASSUME AliceInv, AliceInv', [Next]_vars
    PROVE  [Linear!Next]_(Linear!vars)
<1>1. ASSUME NEW t \in Threads, NEW c \in Calls, Begin(t, c)
      PROVE  Linear!Next
  <2>1. Linear!Invoke(t, c)
    BY <1>1, LinearBegin
  <2>2. c \in Linear!Calls
    BY DEF Calls, Linear!Calls
  <2> QED
    BY <2>1, <2>2 DEF Linear!Next
<1>2. ASSUME NEW t \in Threads, Step(t)
      PROVE  [Linear!Next]_(Linear!vars)
  <2>1. ASSUME Linear!Get(t) \/ Linear!Contains(t) \/ Linear!Remove(t) \/ Linear!Put(t)
                 \/ Linear!Scan(t) \/ Linear!Reset(t),
               at[t] \in {"shard", "scan", "reset"}
        PROVE  Linear!Next
    <3>1. [u \in Threads |-> Phase(u)][t] = "called"
      BY <2>1 DEF Phase
    <3> QED
      BY <2>1, <3>1, Zenon DEF Linear!Next
  <2>2. CASE Get(t) \/ PutNowhere(t) \/ Contains(t)
    <3>1. at[t] = "shard"
      BY <2>2 DEF Get, PutNowhere, Contains, AtShard
    <3> QED
      BY <2>1, <2>2, <3>1, LinearRead
  <2>3. CASE Put(t)
    <3>1. at[t] = "shard"
      BY <2>3 DEF Put, AtShard
    <3> QED
      BY <2>1, <2>3, <3>1, LinearPut
  <2>4. CASE Remove(t)
    <3>1. at[t] = "shard"
      BY <2>4 DEF Remove, AtShard
    <3> QED
      BY <2>1, <2>4, <3>1, LinearRemove
  <2>5. CASE Count(t)
    BY <2>5, LinearCount
  <2>6. CASE ScanLen(t) \/ ScanEmpty(t)
    <3>1. at[t] = "scan"
      BY <2>6 DEF ScanLen, ScanEmpty
    <3> QED
      BY <2>1, <2>6, <3>1, LinearScan
  <2>7. CASE ResetOne(t)
    <3>1. at[t] = "reset"
      BY <2>7 DEF ResetOne
    <3> QED
      BY <2>1, <2>7, <3>1, LinearReset
  <2>8. CASE Return(t)
    <3>1. Linear!Return(t)
      BY <2>8, LinearReturn
    <3> QED
      BY <3>1 DEF Linear!Next
  <2> QED
    BY <1>2, <2>2, <2>3, <2>4, <2>5, <2>6, <2>7, <2>8 DEF Step
<1>3. ASSUME Clear
      PROVE  Linear!Next
  BY <1>3, LinearClear DEF Linear!Next
<1>4. ASSUME UNCHANGED vars
      PROVE  UNCHANGED Linear!vars
  <2>1. UNCHANGED <<shards, capacity, at, call, answer>>
    BY <1>4 DEF vars
  <2>2. Union' = Union /\ ShardRoom' = ShardRoom /\ Phases' = Phases
    BY <2>1 DEF Union, ShardRoom, Phases, Phase, ShardOf, Num
  <2> QED
    BY <2>1, <2>2 DEF Linear!vars, Phases, ShardRoom
<1> QED
  BY <1>1, <1>2, <1>3, <1>4 DEF Next

\* The cache is linearizable: whatever its threads do at once, and whatever
\* other shards do during a scan, each call on a key is one step of one map, put
\* together of the shards, that holds no more than the capacity and loses a key
\* only for a new one, once it holds at least the smallest shard's room.
THEOREM CacheIsLinear == Spec => ImplementsLinearCache
<1>1. Init => Linear!Init
  BY LinearInit
<1>2. AliceInv /\ AliceInv' /\ [Next]_vars => [Linear!Next]_(Linear!vars)
  BY LinearStep
<1> QED
  BY <1>1, <1>2, AliceInvariance, PTL DEF Spec, ImplementsLinearCache, Linear!Spec

-----------------------------------------------------------------------------
(* The caches that can be built.                                           *)

\* What `new` asks for is a power of two, and leaves the shards the minimum.
LEMMA AskedFacts ==
    ASSUME NEW c \in Nat
    PROVE  /\ ShardsForCapacity(c) \in Nat \ {0}
           /\ IsPowerOfTwo(ShardsForCapacity(c))
           /\ ShardsForCapacity(c) = 1 \/ ShardsForCapacity(c) <= c \div MinCapacityPerShard
<1> DEFINE wanted == c \div MinCapacityPerShard
<1>1. wanted \in Nat
  BY ShardingAssumption
<1>2. DefaultShards \in Nat \ {0} /\ IsPowerOfTwo(DefaultShards)
  BY ShardingAssumption
<1> HIDE DEF wanted
<1>3. wanted # 0 => /\ FloorPowerOfTwo(wanted) \in Nat \ {0}
                    /\ FloorPowerOfTwo(wanted) <= wanted
                    /\ IsPowerOfTwo(FloorPowerOfTwo(wanted))
  <2>1. SUFFICES ASSUME wanted # 0
                 PROVE  /\ FloorPowerOfTwo(wanted) \in Nat \ {0}
                        /\ FloorPowerOfTwo(wanted) <= wanted
                        /\ IsPowerOfTwo(FloorPowerOfTwo(wanted))
    OBVIOUS
  <2>2. FloorPowerOfTwo(wanted) \in 1 .. wanted /\ IsPowerOfTwo(FloorPowerOfTwo(wanted))
    BY <1>1, <2>1, FloorFacts
  <2> QED
    BY <1>1, <2>2
<1>4. ShardsForCapacity(c) = (IF wanted <= 1 THEN 1
                              ELSE IF wanted >= DefaultShards THEN DefaultShards
                              ELSE FloorPowerOfTwo(wanted))
  BY DEF ShardsForCapacity, wanted
<1>5. CASE wanted <= 1
  BY <1>4, <1>5, OneIsPower
<1>6. CASE ~(wanted <= 1) /\ wanted >= DefaultShards
  BY <1>1, <1>2, <1>4, <1>6 DEF wanted
<1>7. CASE ~(wanted <= 1) /\ ~(wanted >= DefaultShards)
  BY <1>1, <1>3, <1>4, <1>7 DEF wanted
<1> QED
  BY <1>5, <1>6, <1>7

\* Few enough shards have at least the minimum each.
LEMMA RoomyFacts ==
    ASSUME NEW c \in Nat, NEW m \in Nat \ {0}, NEW num \in Nat \ {0}, num <= c \div m
    PROVE  m <= c \div num
<1> DEFINE w == c \div m
           q == c \div num
           r == c % num
<1>1. w \in Nat /\ m * w <= c
  <2>1. /\ c \div m \in Nat /\ c % m \in 0 .. m - 1
        /\ c = m * (c \div m) + (c % m)
    BY Division
  <2>2. m * (c \div m) \in Nat
    BY <2>1
  <2> QED
    BY <2>1, <2>2
<1>2. q \in Nat /\ r \in 0 .. num - 1 /\ c = num * q + r
  BY Division
<1>3. num <= w
  OBVIOUS
<1> HIDE DEF w, q, r
<1>4. m * num <= m * w
  BY <1>1, <1>3
<1>5. SUFFICES ASSUME q + 1 <= m
               PROVE  FALSE
  BY <1>2 DEF q
<1>6. (q + 1) * num <= m * num
  BY <1>2, <1>5
<1>7. (q + 1) * num = num * q + num
  BY <1>2
<1> QED
  BY <1>1, <1>2, <1>4, <1>6, <1>7

\* The rooms of the first shards add up.
LEMMA RoomsAddUp ==
    ASSUME NEW c \in Nat, NEW num \in Nat \ {0},
           NEW room, room = [i \in Shards(num) |-> ShardCapacity(c, num, i)]
    PROVE  FoldFunction(+, 0, room) = c
<1>1. /\ Upto(c, num, 0) = 0 /\ Upto(c, num, num) = c
      /\ \A n \in Nat : /\ Upto(c, num, n) \in Nat
                        /\ ShardCapacity(c, num, n) \in Nat
                        /\ Upto(c, num, n + 1) = Upto(c, num, n) + ShardCapacity(c, num, n)
  BY RoomFacts
<1>2. Shards(num) \subseteq Nat /\ IsFiniteSet(Shards(num)) /\ DOMAIN room = Shards(num)
      /\ \A i \in Shards(num) : room[i] = ShardCapacity(c, num, i) /\ room[i] \in Nat
  <2>1. Shards(num) \subseteq Nat /\ 0 \in Int /\ num - 1 \in Int
    BY DEF Shards
  <2>2. IsFiniteSet(Shards(num))
    BY <2>1, FS_Interval DEF Shards
  <2> QED
    BY <1>1, <2>1, <2>2
<1> DEFINE First(n) == {i \in Shards(num) : i < n}
           Size(n) == Cardinality(Under(room, First(n)))
           Good == {n \in Nat : n <= num => Size(n) = Upto(c, num, n)}
<1>3. 0 \in Good
  <2>1. First(0) = {}
    BY <1>2
  <2>2. Under(room, {}) = {}
    BY DEF Under
  <2>3. Size(0) = 0
    BY <2>1, <2>2, FS_EmptySet
  <2> QED
    BY <1>1, <2>3
<1>4. ASSUME NEW n \in Nat, n \in Good
      PROVE  n + 1 \in Good
  <2>1. SUFFICES ASSUME n + 1 <= num
                 PROVE  Size(n + 1) = Upto(c, num, n + 1)
    OBVIOUS
  <2>2. n \in First(n + 1) /\ First(n + 1) \ {n} = First(n) /\ n \in Shards(num)
    BY <1>2, <2>1 DEF Shards
  <2>3. First(n + 1) \in SUBSET Shards(num) /\ First(n) \in SUBSET Shards(num)
    OBVIOUS
  <2>4. Size(n) = Upto(c, num, n)
    BY <1>4, <2>1
  <2> HIDE DEF First
  <2>a. \A i \in Shards(num) : room[i] \in Nat
    BY <1>2
  <2>5. IsFiniteSet(Under(room, First(n + 1) \ {n}))
    BY <1>2, <2>2, <2>3, <2>a, UnderFinite
  <2>6. Cardinality(Under(room, First(n + 1)))
          = room[n] + Cardinality(Under(room, First(n + 1) \ {n}))
    <3> DEFINE T == First(n + 1)
               S == Shards(num)
    <3>1. T \in SUBSET S /\ n \in T /\ IsFiniteSet(Under(room, T \ {n}))
      BY <2>2, <2>3, <2>5
    <3>2. room \in [S -> Nat]
      BY <2>a
    <3> HIDE DEF T, S
    <3>3. ASSUME NEW R, room \in [R -> Nat], NEW U \in SUBSET R, NEW e \in U,
                 IsFiniteSet(Under(room, U \ {e}))
          PROVE  Cardinality(Under(room, U)) = room[e] + Cardinality(Under(room, U \ {e}))
      BY <3>3, UnderOne
    <3>4. Cardinality(Under(room, T)) = room[n] + Cardinality(Under(room, T \ {n}))
      BY <3>1, <3>2, <3>3
    <3> QED
      BY <3>4 DEF T
  <2>7. Size(n + 1) = room[n] + Size(n)
    BY <2>2, <2>6
  <2>8. room[n] = ShardCapacity(c, num, n)
    BY <1>2, <2>2
  <2> HIDE DEF Size
  <2> QED
    BY <1>1, <2>4, <2>7, <2>8
<1> HIDE DEF Size
<1>5. \A n \in Nat : n \in Good
  <2> HIDE DEF Good
  <2> QED
    BY <1>3, <1>4, NatInduct
<1>6. Size(num) = c
  BY <1>1, <1>5
<1>7. First(num) = Shards(num)
  BY DEF Shards
<1>8. Total(room, Shards(num)) = Cardinality(Under(room, Shards(num)))
  BY <1>2, SumIsSize
<1>9. FoldFunction(+, 0, room) = Total(room, Shards(num))
  BY <1>2 DEF FoldFunction, Total
<1> QED
  BY <1>6, <1>7, <1>8, <1>9 DEF Size

\* What is built with a number of shards asked for.
LayoutOK ==
    cache # NoCache =>
        \E c \in Nat, r \in Nat \ {0}, by \in {"new", "config"} :
            /\ IsPowerOfTwo(r)
            /\ by = "new" => r = ShardsForCapacity(c)
            /\ cache = Built(by, c, r)

LEMMA LayoutFacts ==
    ASSUME LayoutOK
    PROVE  LayoutTypeOK /\ CapacityIsExact /\ NoShardStarves /\ NewKeepsShardsRoomy
<1>1. CASE cache = NoCache
  BY <1>1 DEF LayoutTypeOK, CapacityIsExact, NoShardStarves, NewKeepsShardsRoomy
<1>2. CASE cache # NoCache
  <2>1. PICK c \in Nat, r \in Nat \ {0}, by \in {"new", "config"} :
          /\ IsPowerOfTwo(r)
          /\ by = "new" => r = ShardsForCapacity(c)
          /\ cache = Built(by, c, r)
    BY <1>2 DEF LayoutOK
  <2> DEFINE num == ShardsInUse(c, r)
  <2>2. num \in Nat \ {0} /\ IsPowerOfTwo(num) /\ num <= AtLeast1(c)
    BY <2>1, InUseFacts
  <2>3. /\ cache.by = by /\ cache.capacity = c /\ cache.num = num
        /\ cache.room = [i \in Shards(num) |-> ShardCapacity(c, num, i)]
    BY <2>1 DEF Built
  <2>4. num <= r
    <3>1. FloorPowerOfTwo(AtLeast1(c)) \in Nat
      <4>1. AtLeast1(c) \in Nat \ {0}
        BY DEF AtLeast1
      <4>2. FloorPowerOfTwo(AtLeast1(c)) \in 1 .. AtLeast1(c)
        BY <4>1, FloorFacts
      <4> QED
        BY <4>1, <4>2
    <3> QED
      BY <3>1, ShardingAssumption DEF ShardsInUse, Least
  <2> HIDE DEF num
  <2>5. /\ \A n \in Nat : /\ ShardCapacity(c, num, n) \in Nat
                          /\ c \div num <= ShardCapacity(c, num, n)
        /\ num <= c => c \div num > 0
        /\ c \div num \in Nat
    <3>1. /\ \A n \in Nat : /\ Upto(c, num, n) \in Nat
                            /\ ShardCapacity(c, num, n) \in Nat
                            /\ c \div num <= ShardCapacity(c, num, n)
                            /\ Upto(c, num, n + 1) = Upto(c, num, n) + ShardCapacity(c, num, n)
          /\ c \div num \in 0 .. c
          /\ num <= c => c \div num > 0
      BY <2>2, RoomFacts
    <3> QED
      BY <3>1
  <2>6. Shards(num) \subseteq Nat
    BY <2>2 DEF Shards
  <2>7. \A i \in Shards(num) : /\ cache.room[i] \in Nat
                               /\ c \div num <= cache.room[i]
    BY <2>3, <2>5, <2>6
  <2>8. LayoutTypeOK
    BY <2>2, <2>3, <2>5, <2>6 DEF LayoutTypeOK
  <2>9. CapacityIsExact
    <3>1. \A room : room = [i \in Shards(num) |-> ShardCapacity(c, num, i)]
                      => FoldFunction(+, 0, room) = c
      BY <2>2, RoomsAddUp
    <3>2. FoldFunction(+, 0, cache.room) = c
      BY <2>3, <3>1
    <3> QED
      BY <2>3, <3>2 DEF CapacityIsExact
  <2>10. NoShardStarves
    <3>1. c > 0 => c \div num > 0
      BY <2>2, <2>5 DEF AtLeast1
    <3>2. c > 0 => \A i \in Shards(num) : cache.room[i] > 0
      BY <2>5, <2>7, <3>1
    <3> QED
      BY <2>2, <2>3, <3>2 DEF NoShardStarves
  <2>11. NewKeepsShardsRoomy
    <3>1. SUFFICES ASSUME by = "new", NEW i \in Shards(num)
                   PROVE  cache.room[i] >= Least(c, MinCapacityPerShard)
      BY <2>3 DEF NewKeepsShardsRoomy
    <3>2. r = ShardsForCapacity(c)
      BY <2>1, <3>1
    <3>3. r = 1 \/ r <= c \div MinCapacityPerShard
      BY <3>2, AskedFacts
    <3>4. MinCapacityPerShard \in Nat \ {0} /\ c \div MinCapacityPerShard \in Nat
      BY ShardingAssumption
    <3>5. /\ Least(c, MinCapacityPerShard) \in Nat
          /\ Least(c, MinCapacityPerShard) <= c
          /\ Least(c, MinCapacityPerShard) <= MinCapacityPerShard
      BY <3>4 DEF Least
    <3>6. CASE r = 1
      <4>1. num = 1
        BY <2>2, <2>4, <3>6
      <4>2. c \div 1 = c
        OBVIOUS
      <4> QED
        BY <2>7, <3>5, <4>1, <4>2
    <3>7. CASE r <= c \div MinCapacityPerShard
      <4>1. num <= c \div MinCapacityPerShard
        BY <2>2, <2>4, <3>4, <3>7
      <4>2. MinCapacityPerShard <= c \div num
        BY <2>2, <3>4, <4>1, RoomyFacts
      <4> QED
        BY <2>5, <2>7, <3>4, <3>5, <4>2
    <3> QED
      BY <3>3, <3>6, <3>7
  <2> QED
    BY <2>8, <2>9, <2>10, <2>11
<1> QED
  BY <1>1, <1>2

LEMMA LayoutStep ==
    ASSUME LayoutNext
    PROVE  LayoutOK'
<1>1. DefaultShards \in Nat \ {0} /\ IsPowerOfTwo(DefaultShards)
  BY ShardingAssumption
<1>2. ASSUME NEW c \in Nat, NEW r \in Nat \ {0}, IsPowerOfTwo(r),
             cache' = Built("config", c, r)
      PROVE  LayoutOK'
  BY <1>2 DEF LayoutOK
<1>3. CASE WithConfig(DefaultConfig)
  BY <1>1, <1>2, <1>3, LayoutAssumption DEF WithConfig, DefaultConfig
<1>4. ASSUME NEW config \in [capacity : CapacitiesAsked, num_shards : ShardsAsked],
             WithConfig(config)
      PROVE  LayoutOK'
  <2>1. config.capacity \in Nat /\ config.num_shards \in Nat /\ IsPowerOfTwo(config.num_shards)
    BY LayoutAssumption
  <2>2. config.num_shards # 0
    BY <2>1 DEF IsPowerOfTwo
  <2> QED
    BY <1>2, <1>4, <2>1, <2>2 DEF WithConfig
<1>5. ASSUME NEW c \in CapacitiesAsked, PyWithConfig(c)
      PROVE  LayoutOK'
  BY <1>1, <1>2, <1>5, LayoutAssumption DEF PyWithConfig, WithConfig, DefaultConfig
<1>6. ASSUME NEW c \in CapacitiesAsked, New(c)
      PROVE  LayoutOK'
  <2>1. c \in Nat
    BY LayoutAssumption
  <2>2. ShardsForCapacity(c) \in Nat \ {0} /\ IsPowerOfTwo(ShardsForCapacity(c))
    BY <2>1, AskedFacts
  <2> QED
    BY <1>6, <2>1, <2>2 DEF New, LayoutOK
<1> QED
  BY <1>3, <1>4, <1>5, <1>6 DEF LayoutNext

LEMMA LayoutInvariance == LayoutSpec => []LayoutOK
<1>1. LayoutInit => LayoutOK
  BY DEF LayoutInit, LayoutOK
<1>2. LayoutOK /\ [LayoutNext]_cache => LayoutOK'
  <2>1. LayoutOK /\ cache' = cache => LayoutOK'
    BY DEF LayoutOK
  <2> QED
    BY <2>1, LayoutStep
<1> QED
  BY <1>1, <1>2, PTL DEF LayoutSpec

\* The shard capacities add up to the capacity (cache.rs, with_config_and_seed),
\* for every capacity and every number of shards asked for.
THEOREM LayoutIsExact == LayoutSpec => []CapacityIsExact
  BY LayoutInvariance, LayoutFacts, PTL

\* No shard is without room, and the mask reaches each (cache.rs,
\* with_config_and_seed), however many are asked for.
THEOREM LayoutFeedsAll == LayoutSpec => []NoShardStarves
  BY LayoutInvariance, LayoutFacts, PTL

\* A cache built with `new` is not cut into shards too small to use (cache.rs,
\* shards_for_capacity): each has the minimum, or is all there is.
THEOREM LayoutIsRoomy == LayoutSpec => []NewKeepsShardsRoomy
  BY LayoutInvariance, LayoutFacts, PTL

-----------------------------------------------------------------------------
(* The batches.                                                            *)

Replies == Values \cup {NoValue}
CounterNames == {"hits", "misses"}
Counted == [CounterNames -> Nat]
BatchPlaces == {"idle", "call", "count", "tally", "reset"}

BatchShape ==
    /\ store \in Maps
    /\ place \in [Callers -> BatchPlaces]
    /\ batch \in [Callers -> Batches \cup {NoBatch}]
    /\ results \in [Callers -> Seq(Replies)]
    /\ tally \in [Callers -> Counted]
    /\ batchStats \in Counted
    /\ settled \in [CounterNames -> Int]
    /\ seen \in [Callers -> [Keys -> SUBSET Replies]]

\* The answers of the first n calls that found nothing.
Missed(t, n) == {m \in 1 .. n : results[t][m] = NoValue}

\* Its last answer may not be tallied yet.
Tallied(t) == IF place[t] \in {"count", "tally"} THEN Done(t) - 1 ELSE Done(t)

BatchOK(t) ==
    /\ place[t] \in {"idle", "reset"} =>
         batch[t] = NoBatch /\ results[t] = <<>> /\ tally[t] = NoneCounted
    /\ place[t] \notin {"idle", "reset"} => batch[t] \in Batches
    /\ Done(t) <= Len(batch[t].keys)
    /\ place[t] \in {"count", "tally"} => batch[t].op = "get" /\ Done(t) > 0
    /\ batch[t].op \in {"get", "remove"} =>
         /\ \A k \in Asked(batch[t]) : store[k] \in seen[t][k]
         /\ \A n \in 1 .. Done(t) : results[t][n] \in seen[t][batch[t].keys[n]]
    /\ batch[t].op = "get" =>
         /\ tally[t]["misses"] = Cardinality(Missed(t, Tallied(t)))
         /\ tally[t]["hits"] + tally[t]["misses"] = Tallied(t)

Tallies(c) == [t \in Callers |-> Counts(t, c)]

SumsAgree == \A c \in CounterNames : batchStats[c] = settled[c] + Total(Tallies(c), Callers)

BatchInv == BatchShape /\ SumsAgree /\ \A t \in Callers : BatchOK(t)

LEMMA BatchFacts ==
    ASSUME NEW b \in Batches
    PROVE  /\ b.op \in {"get", "put", "remove"} /\ b.keys \in Seq(Keys) /\ b.values \in Seq(Values)
           /\ b.op = "put" => Len(b.values) = Len(b.keys)
           /\ Len(b.keys) \in Nat
           /\ \A n \in 1 .. Len(b.keys) : /\ b.keys[n] \in Keys
                                          /\ b.op # "put" => b.keys[n] \in Asked(b)
           /\ Asked(b) \subseteq Keys
<1>1. /\ b.op \in {"get", "put", "remove"} /\ b.keys \in Seq(Keys) /\ b.values \in Seq(Values)
      /\ b.op = "put" => Len(b.values) = Len(b.keys)
  BY BatchAssumption
<1>2. Len(b.keys) \in Nat /\ DOMAIN b.keys = 1 .. Len(b.keys)
      /\ \A n \in 1 .. Len(b.keys) : b.keys[n] \in Keys
  BY <1>1
<1>3. Asked(b) = IF b.op = "put" THEN {} ELSE {b.keys[n] : n \in 1 .. Len(b.keys)}
  BY <1>2 DEF Asked, Range
<1> QED
  BY <1>1, <1>2, <1>3

LEMMA NoneFacts == NoneCounted \in Counted /\ \A c \in CounterNames : NoneCounted[c] = 0
  BY DEF NoneCounted, Counted, CounterNames

LEMMA EmptyMapFacts == EmptyMap \in Maps
  BY DEF EmptyMap, Maps

LEMMA SeenInFacts ==
    ASSUME NEW m \in Maps, NEW b
    PROVE  SeenIn(m, b) \in [Keys -> SUBSET Replies]
<1>1. \A k \in Keys : m[k] \in Replies
  BY DEF Maps, Replies
<1>2. \A k \in Keys : (IF k \in Asked(b) THEN {m[k]} ELSE {}) \in SUBSET Replies
  BY <1>1
<1> QED
  BY <1>2 DEF SeenIn

\* The state of a caller that does nothing: others may change the map, if what
\* its keys are mapped to then is seen.
LEMMA Idly ==
    ASSUME BatchShape, NEW u \in Callers, BatchOK(u),
           batch'[u] = batch[u], results'[u] = results[u],
           tally'[u] = tally[u], place'[u] = place[u],
           \A k \in Asked(batch[u]) : store'[k] \in seen'[u][k],
           \A k \in Keys : seen[u][k] \subseteq seen'[u][k]
    PROVE  BatchOK(u)'
<1>1. Done(u)' = Done(u) /\ Tallied(u)' = Tallied(u)
  BY DEF Done, Tallied
<1>2. Missed(u, Tallied(u))' = Missed(u, Tallied(u))
  BY <1>1 DEF Missed
<1>3. batch[u].op \in {"get", "remove"} =>
        \A n \in 1 .. Done(u) : results[u][n] \in seen'[u][batch[u].keys[n]]
  <2> SUFFICES ASSUME batch[u].op \in {"get", "remove"}, NEW n \in 1 .. Done(u)
               PROVE  results[u][n] \in seen'[u][batch[u].keys[n]]
    OBVIOUS
  <2>1. results[u][n] \in seen[u][batch[u].keys[n]]
    BY DEF BatchOK
  <2>2. batch[u] \in Batches
    BY DEF BatchOK, NoBatch
  <2>3. Len(batch[u].keys) \in Nat /\ \A m \in 1 .. Len(batch[u].keys) : batch[u].keys[m] \in Keys
    BY <2>2, BatchFacts
  <2>4. Done(u) \in Nat /\ Done(u) <= Len(batch[u].keys)
    BY DEF BatchShape, BatchOK, Done
  <2>5. batch[u].keys[n] \in Keys
    BY <2>3, <2>4
  <2> QED
    BY <2>1, <2>5
<1> QED
  BY <1>1, <1>2, <1>3 DEF BatchOK

LEMMA CountsFacts ==
    ASSUME BatchShape, NEW t \in Callers, NEW c \in CounterNames
    PROVE  Counts(t, c) \in Nat /\ Outcome(t) \in CounterNames
<1>1. tally[t][c] \in Nat
  BY DEF BatchShape, Counted
<1> QED
  BY <1>1 DEF Counts, Outcome, CounterNames

\* A thread whose tally stands still and that is not between the two counts.
LEMMA SameCounts ==
    ASSUME NEW t \in Callers, tally'[t] = tally[t],
           \/ place[t] # "tally" /\ place'[t] # "tally"
           \/ place'[t] = place[t] /\ results'[t] = results[t]
    PROVE  \A c \in CounterNames : Counts(t, c)' = Counts(t, c)
<1>1. CASE place[t] # "tally" /\ place'[t] # "tally"
  BY <1>1 DEF Counts
<1>2. CASE place'[t] = place[t] /\ results'[t] = results[t]
  <2>1. Outcome(t)' = Outcome(t)
    BY <1>2 DEF Outcome, Done
  <2> QED
    BY <1>2, <2>1 DEF Counts
<1> QED
  BY <1>1, <1>2

\* Where no thread's counts change, the sums do not.
LEMMA SameSums ==
    ASSUME SumsAgree, batchStats' = batchStats, settled' = settled,
           \A t \in Callers, c \in CounterNames : Counts(t, c)' = Counts(t, c)
    PROVE  SumsAgree'
<1>1. \A c \in CounterNames : Tallies(c)' = Tallies(c)
  BY DEF Tallies
<1> QED
  BY <1>1 DEF SumsAgree

\* Where one thread's counts change, the others of the law change with it.
LEMMA SumMoves ==
    ASSUME BatchShape, BatchShape', SumsAgree, NEW t \in Callers, NEW c \in CounterNames,
           \A u \in Callers : u # t => Counts(u, c)' = Counts(u, c),
           batchStats'[c] + Counts(t, c) + settled[c]
             = batchStats[c] + Counts(t, c)' + settled'[c]
    PROVE  batchStats'[c] = settled'[c] + Total(Tallies(c)', Callers)
<1> DEFINE f == Tallies(c)
           g == Tallies(c)'
<1>1. \A u \in Callers : Counts(u, c) \in Nat /\ Counts(u, c)' \in Nat
  <2>1. \A u \in Callers : Counts(u, c)' \in Nat
    <3>1. ASSUME NEW u \in Callers PROVE tally'[u][c] \in Nat
      BY DEF BatchShape, Counted
    <3> QED
      BY <3>1 DEF Counts
  <2> QED
    BY <2>1, CountsFacts
<1>2. f \in [Callers -> Nat] /\ g \in [Callers -> Nat]
  BY <1>1 DEF Tallies
<1>3. f[t] = Counts(t, c) /\ g[t] = Counts(t, c)' /\ \A u \in Callers \ {t} : g[u] = f[u]
  BY DEF Tallies
<1>4. /\ batchStats[c] = settled[c] + Total(f, Callers)
      /\ batchStats[c] \in Nat /\ settled[c] \in Int
      /\ batchStats'[c] \in Nat /\ settled'[c] \in Int
  BY DEF SumsAgree, BatchShape, Counted
<1>5. IsFiniteSet(Callers)
  BY BatchAssumption
<1>6. f[t] \in Nat /\ g[t] \in Nat
  BY <1>2
<1> HIDE DEF f, g
<1>7. /\ Total(f, Callers) \in Nat /\ Total(g, Callers) \in Nat
      /\ Total(g, Callers) + f[t] = Total(f, Callers) + g[t]
  BY <1>2, <1>3, <1>5, SumChangeOne
<1>8. batchStats'[c] + f[t] + settled[c] = batchStats[c] + g[t] + settled'[c]
  BY <1>3
<1> DEFINE b1 == batchStats[c]
           b2 == batchStats'[c]
           s1 == settled[c]
           s2 == settled'[c]
<1>9. /\ b1 \in Nat /\ b2 \in Nat /\ s1 \in Int /\ s2 \in Int
      /\ b1 = s1 + Total(f, Callers) /\ b2 + f[t] + s1 = b1 + g[t] + s2
  BY <1>4, <1>8
<1> HIDE DEF b1, b2, s1, s2
<1>10. b2 = s2 + Total(g, Callers)
  BY <1>6, <1>7, <1>9
<1> QED
  BY <1>10 DEF g, b2, s2

LEMMA BatchInitStep == BatchInit => BatchInv
<1> SUFFICES ASSUME BatchInit PROVE BatchInv
  OBVIOUS
<1>1. BatchShape
  <2>1. NothingSeen \in [Keys -> SUBSET Replies]
    BY DEF NothingSeen
  <2>2. <<>> \in Seq(Replies)
    OBVIOUS
  <2> QED
    BY <2>1, <2>2, NoneFacts, EmptyMapFacts DEF BatchInit, BatchShape, Counted, BatchPlaces
<1>2. ASSUME NEW c \in CounterNames
      PROVE  batchStats[c] = settled[c] + Total(Tallies(c), Callers)
  <2>1. \A t \in Callers : Tallies(c)[t] = 0
    BY NoneFacts DEF BatchInit, Tallies, Counts
  <2>2. Under(Tallies(c), Callers) = {}
    <3>1. ASSUME NEW p \in Callers \X Nat, p[2] < Tallies(c)[p[1]]
          PROVE  FALSE
      BY <2>1, <3>1
    <3> QED
      BY <3>1 DEF Under
  <2>3. Total(Tallies(c), Callers) = Cardinality(Under(Tallies(c), Callers))
    BY <2>1, BatchAssumption, SumIsSize
  <2>4. Total(Tallies(c), Callers) = 0
    BY <2>2, <2>3, FS_EmptySet
  <2> QED
    BY <2>4, NoneFacts DEF BatchInit
<1>3. ASSUME NEW t \in Callers
      PROVE  BatchOK(t)
  <2>1. batch[t] = NoBatch /\ results[t] = <<>> /\ tally[t] = NoneCounted /\ place[t] = "idle"
    BY DEF BatchInit
  <2>2. Done(t) = 0 /\ NoBatch.op = "none" /\ Len(NoBatch.keys) = 0
    BY <2>1 DEF Done, NoBatch
  <2> QED
    BY <2>1, <2>2 DEF BatchOK
<1> QED
  BY <1>1, <1>2, <1>3 DEF BatchInv, SumsAgree

LEMMA BatchBeginStep ==
    ASSUME BatchInv, NEW t \in Callers, NEW b \in Batches, BatchBegin(t, b)
    PROVE  BatchInv'
<1>0. BatchShape /\ BatchOK(t) /\ SumsAgree
  BY DEF BatchInv
<1>1. /\ place[t] = "idle"
      /\ place' = [place EXCEPT ![t] = "call"]
      /\ batch' = [batch EXCEPT ![t] = b]
      /\ seen' = [seen EXCEPT ![t] = SeenIn(store, b)]
      /\ UNCHANGED <<store, batchStats, results, tally, settled>>
  BY DEF BatchBegin
<1>2. SeenIn(store, b) \in [Keys -> SUBSET Replies]
  BY <1>0, SeenInFacts DEF BatchShape
<1>3. BatchShape'
  BY <1>0, <1>1, <1>2 DEF BatchShape, BatchPlaces
<1>4. SumsAgree'
  <2>1. \A u \in Callers : /\ tally'[u] = tally[u] /\ results'[u] = results[u]
                            /\ \/ place[u] # "tally" /\ place'[u] # "tally"
                               \/ place'[u] = place[u]
    BY <1>0, <1>1 DEF BatchShape
  <2> QED
    BY <1>0, <1>1, <2>1, SameCounts, SameSums
<1>5. BatchOK(t)'
  <2>1. /\ place'[t] = "call" /\ batch'[t] = b /\ seen'[t] = SeenIn(store, b)
        /\ results'[t] = <<>> /\ tally'[t] = NoneCounted /\ store' = store
    BY <1>0, <1>1 DEF BatchOK, BatchShape
  <2>2. Done(t)' = 0 /\ Tallied(t)' = 0
    BY <2>1 DEF Done, Tallied
  <2>3. Missed(t, Tallied(t))' = {}
    BY <2>2 DEF Missed
  <2>4. \A k \in Asked(b) : store[k] \in SeenIn(store, b)[k]
    BY BatchFacts DEF SeenIn
  <2>5. /\ tally'[t]["misses"] = Cardinality(Missed(t, Tallied(t))')
        /\ tally'[t]["hits"] + tally'[t]["misses"] = Tallied(t)'
    <3>1. NoneCounted["misses"] = 0 /\ NoneCounted["hits"] = 0
      BY NoneFacts DEF CounterNames
    <3>2. Cardinality(Missed(t, Tallied(t))') = 0
      BY <2>3, FS_EmptySet
    <3> QED
      BY <2>1, <2>2, <3>1, <3>2
  <2>6. Len(b.keys) \in Nat
    BY BatchFacts
  <2> QED
    BY <2>1, <2>2, <2>4, <2>5, <2>6 DEF BatchOK
<1>6. ASSUME NEW u \in Callers, u # t
      PROVE  BatchOK(u)'
  <2>1. BatchOK(u)
    BY DEF BatchInv
  <2>2. /\ batch'[u] = batch[u] /\ results'[u] = results[u] /\ tally'[u] = tally[u]
        /\ place'[u] = place[u] /\ seen'[u] = seen[u] /\ store' = store
    BY <1>0, <1>1, <1>6 DEF BatchShape
  <2>3. Done(u)' = Done(u) /\ Tallied(u)' = Tallied(u)
    BY <2>2 DEF Done, Tallied
  <2>4. Missed(u, Tallied(u))' = Missed(u, Tallied(u))
    BY <2>2, <2>3 DEF Missed
  <2> QED
    BY <2>1, <2>2, <2>3, <2>4 DEF BatchOK
<1> QED
  BY <1>3, <1>4, <1>5, <1>6 DEF BatchInv

\* A call of the batch: its key, and what is known of it.
LEMMA CallOfBatch ==
    ASSUME BatchInv, NEW t \in Callers, NEW op, Calling(t, op)
    PROVE  /\ place[t] = "call" /\ batch[t] \in Batches /\ batch[t].op = op
           /\ Done(t) \in Nat /\ Done(t) + 1 \in 1 .. Len(batch[t].keys)
           /\ Key(t) \in Keys
           /\ op \in {"get", "remove"} => /\ Key(t) \in Asked(batch[t])
                                          /\ store[Key(t)] \in seen[t][Key(t)]
           /\ op = "put" => batch[t].values[Done(t) + 1] \in Values
           /\ store[Key(t)] \in Replies
<1>1. place[t] = "call" /\ batch[t].op = op /\ Done(t) < Len(batch[t].keys)
  BY DEF Calling
<1>2. batch[t] \in Batches
  BY <1>1 DEF BatchInv, BatchOK
<1>3. Done(t) \in Nat
  BY DEF BatchInv, BatchShape, Done
<1>4. /\ batch[t].keys \in Seq(Keys) /\ batch[t].values \in Seq(Values)
      /\ op = "put" => Len(batch[t].values) = Len(batch[t].keys)
      /\ Len(batch[t].keys) \in Nat
      /\ \A n \in 1 .. Len(batch[t].keys) : /\ batch[t].keys[n] \in Keys
                                            /\ op # "put" => batch[t].keys[n] \in Asked(batch[t])
  BY <1>1, <1>2, BatchFacts
<1>5. Done(t) + 1 \in 1 .. Len(batch[t].keys)
  BY <1>1, <1>3, <1>4
<1>6. Key(t) \in Keys /\ (op # "put" => Key(t) \in Asked(batch[t]))
  BY <1>4, <1>5 DEF Key
<1>7. op = "put" => batch[t].values[Done(t) + 1] \in Values
  BY <1>4, <1>5
<1>8. op \in {"get", "remove"} => store[Key(t)] \in seen[t][Key(t)]
  BY <1>1, <1>6 DEF BatchInv, BatchOK
<1>9. store[Key(t)] \in Replies
  BY <1>6 DEF BatchInv, BatchShape, Maps, Replies
<1> QED
  BY <1>1, <1>2, <1>3, <1>5, <1>6, <1>7, <1>8, <1>9

\* One answer more.
LEMMA ResultFacts ==
    ASSUME BatchInv, NEW t \in Callers, NEW v \in Replies, Result(t, v)
    PROVE  /\ results' \in [Callers -> Seq(Replies)]
           /\ \A u \in Callers : u # t => results'[u] = results[u]
           /\ Done(t) \in Nat /\ Done(t)' = Done(t) + 1
           /\ results'[t][Done(t) + 1] = v
           /\ \A n \in 1 .. Done(t) : results'[t][n] = results[t][n]
<1>1. results \in [Callers -> Seq(Replies)] /\ results[t] \in Seq(Replies)
  BY DEF BatchInv, BatchShape
<1>2. results' = [results EXCEPT ![t] = Append(results[t], v)]
  BY DEF Result
<1>3. /\ Append(results[t], v) \in Seq(Replies)
      /\ Len(Append(results[t], v)) = Len(results[t]) + 1 /\ Len(results[t]) \in Nat
      /\ Append(results[t], v)[Len(results[t]) + 1] = v
      /\ \A n \in 1 .. Len(results[t]) : Append(results[t], v)[n] = results[t][n]
  BY <1>1
<1>4. results'[t] = Append(results[t], v)
  BY <1>1, <1>2
<1> QED
  BY <1>1, <1>2, <1>3, <1>4 DEF Done

LEMMA BatchGetStep ==
    ASSUME BatchInv, NEW t \in Callers, BatchGet(t)
    PROVE  BatchInv'
<1>0. BatchShape /\ BatchOK(t) /\ SumsAgree
  BY DEF BatchInv
<1>1. /\ Calling(t, "get") /\ Result(t, store[Key(t)])
      /\ place' = [place EXCEPT ![t] = "count"]
      /\ UNCHANGED <<store, batchStats, batch, tally, settled, seen>>
  BY DEF BatchGet
<1>2. /\ place[t] = "call" /\ batch[t] \in Batches /\ batch[t].op = "get"
      /\ Done(t) \in Nat /\ Done(t) + 1 \in 1 .. Len(batch[t].keys)
      /\ store[Key(t)] \in seen[t][Key(t)] /\ store[Key(t)] \in Replies
  BY <1>1, CallOfBatch
<1>3. /\ results' \in [Callers -> Seq(Replies)]
      /\ \A u \in Callers : u # t => results'[u] = results[u]
      /\ Done(t)' = Done(t) + 1
      /\ results'[t][Done(t) + 1] = store[Key(t)]
      /\ \A n \in 1 .. Done(t) : results'[t][n] = results[t][n]
  BY <1>1, <1>2, ResultFacts
<1>4. BatchShape'
  BY <1>0, <1>1, <1>3 DEF BatchShape, BatchPlaces
<1>5. SumsAgree'
  <2>1. \A u \in Callers : /\ tally'[u] = tally[u]
                            /\ \/ place[u] # "tally" /\ place'[u] # "tally"
                               \/ place'[u] = place[u] /\ results'[u] = results[u]
    BY <1>0, <1>1, <1>2, <1>3 DEF BatchShape
  <2> QED
    BY <1>0, <1>1, <2>1, SameCounts, SameSums
<1>6. BatchOK(t)'
  <2>1. place'[t] = "count"
    BY <1>0, <1>1 DEF BatchShape
  <2>2. Tallied(t)' = Done(t) /\ Tallied(t) = Done(t)
    BY <1>2, <1>3, <2>1 DEF Tallied
  <2>3. Missed(t, Tallied(t))' = Missed(t, Tallied(t))
    BY <1>3, <2>2 DEF Missed
  <2>4. ASSUME NEW n \in 1 .. Done(t)'
        PROVE  results'[t][n] \in seen[t][batch[t].keys[n]]
    <3>1. CASE n = Done(t) + 1
      BY <1>2, <1>3, <3>1 DEF Key
    <3>2. CASE n # Done(t) + 1
      <4>1. n \in 1 .. Done(t)
        BY <1>2, <1>3, <3>2
      <4> QED
        BY <1>0, <1>2, <1>3, <4>1 DEF BatchOK
    <3> QED
      BY <3>1, <3>2
  <2>5. Done(t)' <= Len(batch[t].keys) /\ Done(t)' > 0
    BY <1>2, <1>3
  <2>6. /\ tally'[t]["misses"] = Cardinality(Missed(t, Tallied(t))')
        /\ tally'[t]["hits"] + tally'[t]["misses"] = Tallied(t)'
    BY <1>0, <1>1, <1>2, <2>2, <2>3 DEF BatchOK
  <2>7. \A k \in Asked(batch[t]) : store[k] \in seen[t][k]
    BY <1>0, <1>2 DEF BatchOK
  <2> QED
    BY <1>1, <1>2, <2>1, <2>4, <2>5, <2>6, <2>7 DEF BatchOK
<1>7. ASSUME NEW u \in Callers, u # t
      PROVE  BatchOK(u)'
  <2>1. BatchOK(u)
    BY DEF BatchInv
  <2>2. /\ batch' = batch /\ results'[u] = results[u] /\ tally' = tally
        /\ place'[u] = place[u] /\ seen' = seen /\ store' = store
    BY <1>0, <1>1, <1>3, <1>7 DEF BatchShape
  <2>3. Done(u)' = Done(u) /\ Tallied(u)' = Tallied(u)
    BY <2>2 DEF Done, Tallied
  <2>4. Missed(u, Tallied(u))' = Missed(u, Tallied(u))
    BY <2>2, <2>3 DEF Missed
  <2> QED
    BY <2>1, <2>2, <2>3, <2>4 DEF BatchOK
<1> QED
  BY <1>4, <1>5, <1>6, <1>7 DEF BatchInv

\* A change of the map is seen by every caller whose batch asks for the key.
LEMMA StoredFacts ==
    ASSUME BatchInv, NEW m \in Maps, Stored(m)
    PROVE  /\ store' = m
           /\ seen' \in [Callers -> [Keys -> SUBSET Replies]]
           /\ \A u \in Callers :
                /\ \A k \in Keys : seen[u][k] \subseteq seen'[u][k]
                /\ \A k \in Keys : k \in Asked(batch[u]) => m[k] \in seen'[u][k]
<1>1. /\ store' = m
      /\ seen' = [u \in Callers |-> [k \in Keys |-> seen[u][k] \cup SeenIn(m, batch[u])[k]]]
  BY DEF Stored
<1>2. ASSUME NEW u \in Callers, NEW k \in Keys
      PROVE  seen[u][k] \cup SeenIn(m, batch[u])[k] \in SUBSET Replies
  <2>1. seen[u][k] \in SUBSET Replies
    BY DEF BatchInv, BatchShape
  <2>2. SeenIn(m, batch[u])[k] \in SUBSET Replies
    BY SeenInFacts
  <2> QED
    BY <2>1, <2>2
<1>3. \A u \in Callers, k \in Keys : seen'[u][k] = seen[u][k] \cup SeenIn(m, batch[u])[k]
  BY <1>1
<1>4. \A u \in Callers, k \in Keys : k \in Asked(batch[u]) => m[k] \in SeenIn(m, batch[u])[k]
  BY DEF SeenIn
<1> QED
  BY <1>1, <1>2, <1>3, <1>4

\* A call of a put or a remove.
LEMMA BatchWriteStep ==
    ASSUME BatchInv, NEW t \in Callers, NEW op \in {"put", "remove"}, Calling(t, op),
           NEW m \in Maps, Stored(m), NEW v \in Replies, Result(t, v),
           op = "remove" => v = store[Key(t)],
           UNCHANGED <<batchStats, batch, place, tally, settled>>
    PROVE  BatchInv'
<1>0. BatchShape /\ BatchOK(t) /\ SumsAgree
  BY DEF BatchInv
<1>1. /\ place[t] = "call" /\ batch[t] \in Batches /\ batch[t].op = op
      /\ Done(t) \in Nat /\ Done(t) + 1 \in 1 .. Len(batch[t].keys)
      /\ Key(t) \in Keys
      /\ op = "remove" => store[Key(t)] \in seen[t][Key(t)]
  BY CallOfBatch
<1>2. /\ results' \in [Callers -> Seq(Replies)]
      /\ \A u \in Callers : u # t => results'[u] = results[u]
      /\ Done(t)' = Done(t) + 1
      /\ results'[t][Done(t) + 1] = v
      /\ \A n \in 1 .. Done(t) : results'[t][n] = results[t][n]
  BY ResultFacts
<1>3. /\ store' = m
      /\ seen' \in [Callers -> [Keys -> SUBSET Replies]]
      /\ \A u \in Callers :
           /\ \A k \in Keys : seen[u][k] \subseteq seen'[u][k]
           /\ \A k \in Keys : k \in Asked(batch[u]) => m[k] \in seen'[u][k]
  BY StoredFacts
<1>4. BatchShape'
  BY <1>0, <1>2, <1>3 DEF BatchShape
<1>5. SumsAgree'
  <2>1. \A u \in Callers : /\ tally'[u] = tally[u]
                            /\ \/ place[u] # "tally" /\ place'[u] # "tally"
                               \/ place'[u] = place[u] /\ results'[u] = results[u]
    BY <1>1, <1>2
  <2> QED
    BY <1>0, <2>1, SameCounts, SameSums
<1>6. BatchOK(t)'
  <2>1. \A n \in 1 .. Len(batch[t].keys) : batch[t].keys[n] \in Keys
    BY <1>1, BatchFacts
  <2>2. ASSUME op = "remove", NEW n \in 1 .. Done(t)'
        PROVE  results'[t][n] \in seen'[t][batch[t].keys[n]]
    <3>1. batch[t].keys[n] \in Keys
      BY <1>1, <1>2, <2>1
    <3>2. CASE n = Done(t) + 1
      BY <1>1, <1>2, <1>3, <2>2, <3>1, <3>2 DEF Key
    <3>3. CASE n # Done(t) + 1
      <4>1. n \in 1 .. Done(t)
        BY <1>1, <1>2, <3>3
      <4>2. results[t][n] \in seen[t][batch[t].keys[n]]
        BY <1>0, <1>1, <2>2, <4>1 DEF BatchOK
      <4> QED
        BY <1>2, <1>3, <3>1, <4>1, <4>2
    <3> QED
      BY <3>2, <3>3
  <2>3. \A k \in Asked(batch[t]) : m[k] \in seen'[t][k]
    BY <1>1, <1>3, BatchFacts
  <2>4. Done(t)' <= Len(batch[t].keys)
    BY <1>1, <1>2
  <2> QED
    BY <1>1, <1>3, <2>2, <2>3, <2>4 DEF BatchOK
<1>7. ASSUME NEW u \in Callers, u # t
      PROVE  BatchOK(u)'
  <2>1. BatchOK(u) /\ results'[u] = results[u]
    BY <1>2, <1>7 DEF BatchInv
  <2>2. Asked(batch[u]) \subseteq Keys
    <3>1. CASE batch[u] \in Batches
      BY <3>1, BatchFacts
    <3>2. CASE batch[u] = NoBatch
      BY <3>2 DEF NoBatch, Asked, Range
    <3> QED
      BY <1>0, <3>1, <3>2 DEF BatchShape
  <2>3. /\ \A k \in Asked(batch[u]) : store'[k] \in seen'[u][k]
        /\ \A k \in Keys : seen[u][k] \subseteq seen'[u][k]
    BY <1>3, <2>2
  <2> QED
    BY <1>0, <2>1, <2>3, Idly
<1> QED
  BY <1>4, <1>5, <1>6, <1>7 DEF BatchInv

LEMMA StoreType ==
    ASSUME NEW m \in Maps, NEW k \in Keys, NEW v \in Values, NEW lost \in Keys
    PROVE  Store(m, k, v) \in Maps /\ Store(Forget(m, lost), k, v) \in Maps
  BY DEF Store, Forget, Maps

LEMMA BatchPutStep ==
    ASSUME BatchInv, NEW t \in Callers, BatchPut(t)
    PROVE  BatchInv'
<1> DEFINE v == batch[t].values[Done(t) + 1]
<1>1. /\ Calling(t, "put") /\ Result(t, NoValue)
      /\ UNCHANGED <<batchStats, batch, place, tally, settled>>
      /\ \E m \in AfterPut(store, Capacity, Key(t), v) \cup Early(Key(t), v) : Stored(m)
  BY DEF BatchPut
<1>2. Key(t) \in Keys /\ v \in Values /\ store \in Maps
  BY <1>1, CallOfBatch DEF BatchInv, BatchShape
<1> HIDE DEF v
<1>3. Held(store) \subseteq Keys
  BY DEF Held
<1>4. AfterPut(store, Capacity, Key(t), v) \subseteq Maps
  BY <1>2, <1>3, StoreType DEF AfterPut
<1>5. Early(Key(t), v) \subseteq Maps
  BY <1>2, <1>3, StoreType DEF Early
<1>6. PICK m \in Maps : Stored(m)
  BY <1>1, <1>4, <1>5
<1>7. NoValue \in Replies
  BY DEF Replies
<1> QED
  BY <1>1, <1>6, <1>7, BatchWriteStep

LEMMA BatchRemoveStep ==
    ASSUME BatchInv, NEW t \in Callers, BatchRemove(t)
    PROVE  BatchInv'
<1>1. /\ Calling(t, "remove") /\ Result(t, store[Key(t)]) /\ Stored(Forget(store, Key(t)))
      /\ UNCHANGED <<batchStats, batch, place, tally, settled>>
  BY DEF BatchRemove
<1>2. Key(t) \in Keys /\ store \in Maps /\ store[Key(t)] \in Replies
  BY <1>1, CallOfBatch DEF BatchInv, BatchShape
<1>3. Forget(store, Key(t)) \in Maps
  BY <1>2 DEF Forget, Maps
<1> QED
  BY <1>1, <1>2, <1>3, BatchWriteStep

\* A step of one thread, t, that answers nothing and leaves the map alone:
\* what it may change is t's, the statistics and the histories.
LEMMA OthersRest ==
    ASSUME BatchInv, NEW t \in Callers, NEW u \in Callers, u # t,
           batch'[u] = batch[u], results'[u] = results[u], tally'[u] = tally[u],
           place'[u] = place[u], seen'[u] = seen[u], store' = store
    PROVE  BatchOK(u)' /\ \A c \in CounterNames : Counts(u, c)' = Counts(u, c)
<1>1. BatchOK(u)
  BY DEF BatchInv
<1>2. Done(u)' = Done(u) /\ Tallied(u)' = Tallied(u)
  BY DEF Done, Tallied
<1>3. Missed(u, Tallied(u))' = Missed(u, Tallied(u))
  BY <1>2 DEF Missed
<1>4. BatchOK(u)'
  BY <1>1, <1>2, <1>3 DEF BatchOK
<1> QED
  BY <1>4, SameCounts

LEMMA BatchCountStep ==
    ASSUME BatchInv, NEW t \in Callers, BatchCount(t)
    PROVE  BatchInv'
<1>0. BatchShape /\ BatchOK(t) /\ SumsAgree
  BY DEF BatchInv
<1> DEFINE o == Outcome(t)
<1>1. /\ place[t] = "count"
      /\ batchStats' = [batchStats EXCEPT ![o] = batchStats[o] + 1]
      /\ place' = [place EXCEPT ![t] = "tally"]
      /\ UNCHANGED <<store, batch, results, tally, settled, seen>>
  BY DEF BatchCount
<1>2. o \in CounterNames /\ o' = o
  BY <1>1 DEF Outcome, CounterNames, Done
<1>3. batchStats \in Counted /\ place \in [Callers -> BatchPlaces]
  BY <1>0 DEF BatchShape
<1>4. /\ batchStats' \in Counted
      /\ \A c \in CounterNames : batchStats'[c] = batchStats[c] + (IF c = o THEN 1 ELSE 0)
  <2> HIDE DEF o
  <2> QED
    BY <1>1, <1>2, <1>3 DEF Counted
<1>5. place'[t] = "tally" /\ place' \in [Callers -> BatchPlaces]
      /\ \A u \in Callers : u # t => place'[u] = place[u]
  BY <1>1, <1>3 DEF BatchPlaces
<1>6. BatchShape'
  BY <1>0, <1>1, <1>4, <1>5 DEF BatchShape
<1>7. \A u \in Callers : u # t =>
        BatchOK(u)' /\ \A c \in CounterNames : Counts(u, c)' = Counts(u, c)
  BY <1>1, <1>5, OthersRest
<1>8. ASSUME NEW c \in CounterNames
      PROVE  batchStats'[c] = settled'[c] + Total(Tallies(c)', Callers)
  <2>1. tally[t][c] \in Nat /\ batchStats[c] \in Nat /\ settled[c] \in Int
    BY <1>0 DEF BatchShape, Counted
  <2>2. Counts(t, c) = tally[t][c]
    BY <1>1, <2>1 DEF Counts
  <2>3. Counts(t, c)' = tally[t][c] + (IF c = o THEN 1 ELSE 0)
    BY <1>1, <1>2, <1>5, <2>1 DEF Counts
  <2> HIDE DEF o
  <2>4. batchStats'[c] + Counts(t, c) + settled[c]
          = batchStats[c] + Counts(t, c)' + settled'[c]
    BY <1>1, <1>4, <2>1, <2>2, <2>3
  <2> QED
    BY <1>0, <1>6, <1>7, <2>4, SumMoves
<1>9. BatchOK(t)'
  <2>1. Done(t)' = Done(t) /\ Tallied(t)' = Tallied(t)
    BY <1>1, <1>5 DEF Done, Tallied
  <2>2. Missed(t, Tallied(t))' = Missed(t, Tallied(t))
    BY <1>1, <2>1 DEF Missed
  <2> QED
    BY <1>0, <1>1, <1>5, <2>1, <2>2 DEF BatchOK
<1> QED
  BY <1>6, <1>7, <1>8, <1>9 DEF BatchInv, SumsAgree

LEMMA BatchTallyStep ==
    ASSUME BatchInv, NEW t \in Callers, BatchTally(t)
    PROVE  BatchInv'
<1>0. BatchShape /\ BatchOK(t) /\ SumsAgree
  BY DEF BatchInv
<1> DEFINE o == Outcome(t)
<1>1. /\ place[t] = "tally"
      /\ tally' = [tally EXCEPT ![t] = [tally[t] EXCEPT ![o] = tally[t][o] + 1]]
      /\ place' = [place EXCEPT ![t] = "call"]
      /\ UNCHANGED <<store, batchStats, batch, results, settled, seen>>
  BY DEF BatchTally
<1>2. o \in CounterNames /\ (o = "misses" <=> results[t][Done(t)] = NoValue)
  BY DEF Outcome, CounterNames
<1>3. /\ tally[t] \in Counted /\ tally \in [Callers -> Counted]
      /\ place \in [Callers -> BatchPlaces]
  BY <1>0 DEF BatchShape
<1>4. /\ tally'[t] \in Counted /\ tally' \in [Callers -> Counted]
      /\ \A c \in CounterNames : tally'[t][c] = tally[t][c] + (IF c = o THEN 1 ELSE 0)
      /\ \A u \in Callers : u # t => tally'[u] = tally[u]
  <2> HIDE DEF o
  <2> QED
    BY <1>1, <1>2, <1>3 DEF Counted
<1>5. place'[t] = "call" /\ place' \in [Callers -> BatchPlaces]
      /\ \A u \in Callers : u # t => place'[u] = place[u]
  BY <1>1, <1>3 DEF BatchPlaces
<1>6. BatchShape'
  BY <1>0, <1>1, <1>4, <1>5 DEF BatchShape
<1>7. \A u \in Callers : u # t =>
        BatchOK(u)' /\ \A c \in CounterNames : Counts(u, c)' = Counts(u, c)
  BY <1>1, <1>4, <1>5, OthersRest
<1>8. ASSUME NEW c \in CounterNames
      PROVE  batchStats'[c] = settled'[c] + Total(Tallies(c)', Callers)
  <2>1. tally[t][c] \in Nat /\ batchStats[c] \in Nat /\ settled[c] \in Int
    BY <1>0 DEF BatchShape, Counted
  <2>2. Counts(t, c) = tally[t][c] + (IF c = o THEN 1 ELSE 0)
    BY <1>1, <2>1 DEF Counts
  <2>3. Counts(t, c)' = tally'[t][c]
    BY <1>4, <1>5, <2>1 DEF Counts
  <2>4. Counts(t, c)' = Counts(t, c)
    BY <1>4, <2>2, <2>3
  <2>5. batchStats'[c] + Counts(t, c) + settled[c]
          = batchStats[c] + Counts(t, c)' + settled'[c]
    BY <1>1, <2>4
  <2> QED
    BY <1>0, <1>6, <1>7, <2>5, SumMoves
<1> HIDE DEF o
<1>9. BatchOK(t)'
  <2>2. Done(t) \in Nat /\ Done(t)' = Done(t) /\ Done(t) > 0 /\ batch[t].op = "get"
    BY <1>0, <1>1 DEF BatchShape, BatchOK, Done
  <2>3. Tallied(t) = Done(t) - 1 /\ Tallied(t)' = Done(t)
    BY <1>1, <1>5, <2>2 DEF Tallied
  <2> DEFINE d == Done(t)
             A == {n \in 1 .. d - 1 : results[t][n] = NoValue}
             B == {n \in 1 .. d : results[t][n] = NoValue}
  <2>4. Missed(t, Tallied(t)) = A /\ Missed(t, Tallied(t))' = B
    BY <1>1, <2>3 DEF Missed
  <2>5. d \in Nat /\ d > 0
    BY <2>2
  <2>6. IsFiniteSet(A) /\ d \notin A
    <3>1. IsFiniteSet(1 .. d - 1)
      BY <2>5, FS_Interval
    <3> QED
      BY <2>5, <3>1, FS_Subset
  <2>7. B = (IF results[t][d] = NoValue THEN A \cup {d} ELSE A)
    BY <2>5
  <2>8. /\ tally[t]["misses"] = Cardinality(A) /\ tally[t]["misses"] \in Nat
        /\ tally[t]["hits"] + tally[t]["misses"] = d - 1 /\ tally[t]["hits"] \in Nat
    BY <1>0, <1>3, <2>2, <2>3, <2>4 DEF BatchOK, Counted, CounterNames
  <2>9. /\ tally'[t]["misses"] = tally[t]["misses"] + (IF o = "misses" THEN 1 ELSE 0)
        /\ tally'[t]["hits"] = tally[t]["hits"] + (IF o = "hits" THEN 1 ELSE 0)
    BY <1>4 DEF CounterNames
  <2>10. tally'[t]["misses"] = Cardinality(Missed(t, Tallied(t))')
    <3>1. CASE results[t][d] = NoValue
      <4>1. Cardinality(A \cup {d}) = Cardinality(A) + 1
        BY <2>6, FS_AddElement
      <4> QED
        BY <1>2, <2>4, <2>7, <2>8, <2>9, <3>1, <4>1
    <3>2. CASE results[t][d] # NoValue
      <4>1. o # "misses" /\ B = A
        BY <1>2, <2>7, <3>2
      <4>2. tally'[t]["misses"] = tally[t]["misses"]
        BY <2>8, <2>9, <4>1
      <4> QED
        BY <2>4, <2>8, <4>1, <4>2
    <3> QED
      BY <3>1, <3>2
  <2>11. tally'[t]["hits"] + tally'[t]["misses"] = d
    BY <1>2, <2>5, <2>8, <2>9 DEF CounterNames
  <2> HIDE DEF d, A, B
  <2>12. tally'[t]["hits"] + tally'[t]["misses"] = Tallied(t)'
    BY <2>3, <2>11 DEF d
  <2> QED
    BY <1>0, <1>1, <1>5, <2>2, <2>10, <2>12 DEF BatchOK
<1> QED
  BY <1>6, <1>7, <1>8, <1>9 DEF BatchInv, SumsAgree

\* A store of a reset, by a thread that is in no batch before or after it.
LEMMA WipeStep ==
    ASSUME BatchInv, NEW t \in Callers, NEW o \in CounterNames, Wipe(o),
           NEW p \in {"idle", "reset"}, place[t] \in {"idle", "reset"},
           place' = [place EXCEPT ![t] = p]
    PROVE  BatchInv'
<1>0. BatchShape /\ BatchOK(t) /\ SumsAgree
  BY DEF BatchInv
<1>1. /\ batchStats' = [batchStats EXCEPT ![o] = 0]
      /\ settled' = [settled EXCEPT ![o] = settled[o] - batchStats[o]]
      /\ UNCHANGED <<store, batch, results, tally, seen>>
  BY DEF Wipe
<1>2. batchStats \in Counted /\ settled \in [CounterNames -> Int]
      /\ place \in [Callers -> BatchPlaces] /\ batchStats[o] \in Nat /\ settled[o] \in Int
  BY <1>0 DEF BatchShape, Counted
<1>3. /\ batchStats' \in Counted /\ settled' \in [CounterNames -> Int]
      /\ batchStats'[o] = 0 /\ settled'[o] = settled[o] - batchStats[o]
      /\ \A c \in CounterNames : c # o => batchStats'[c] = batchStats[c] /\ settled'[c] = settled[c]
  BY <1>1, <1>2 DEF Counted
<1>4. place'[t] = p /\ place' \in [Callers -> BatchPlaces]
      /\ \A u \in Callers : u # t => place'[u] = place[u]
  BY <1>2 DEF BatchPlaces
<1>5. BatchShape'
  BY <1>0, <1>1, <1>3, <1>4 DEF BatchShape
<1>6. \A u \in Callers : u # t =>
        BatchOK(u)' /\ \A c \in CounterNames : Counts(u, c)' = Counts(u, c)
  BY <1>1, <1>4, OthersRest
<1>7. \A c \in CounterNames : Counts(t, c)' = Counts(t, c)
  BY <1>1, <1>4, SameCounts
<1>8. ASSUME NEW c \in CounterNames
      PROVE  batchStats'[c] = settled'[c] + Total(Tallies(c)', Callers)
  <2>1. Counts(t, c) \in Nat /\ batchStats[c] \in Nat /\ settled[c] \in Int
    BY <1>0, CountsFacts DEF BatchShape, Counted
  <2>2. batchStats'[c] + Counts(t, c) + settled[c]
          = batchStats[c] + Counts(t, c)' + settled'[c]
    BY <1>2, <1>3, <1>7, <2>1
  <2> QED
    BY <1>0, <1>5, <1>6, <2>2, SumMoves
<1>9. BatchOK(t)'
  <2>1. /\ batch'[t] = NoBatch /\ results'[t] = <<>> /\ tally'[t] = NoneCounted
        /\ place'[t] \in {"idle", "reset"}
    BY <1>0, <1>1, <1>4 DEF BatchOK
  <2>2. Done(t)' = 0 /\ NoBatch.op = "none" /\ Len(NoBatch.keys) = 0
    BY <2>1 DEF Done, NoBatch
  <2> QED
    BY <2>1, <2>2 DEF BatchOK
<1> QED
  BY <1>5, <1>6, <1>8, <1>9 DEF BatchInv, SumsAgree

LEMMA BatchResetStep ==
    ASSUME BatchInv, NEW t \in Callers, ResetHits(t) \/ ResetMisses(t)
    PROVE  BatchInv'
<1>1. CASE ResetHits(t)
  BY <1>1, WipeStep DEF ResetHits, CounterNames
<1>2. CASE ResetMisses(t)
  BY <1>2, WipeStep DEF ResetMisses, CounterNames
<1> QED
  BY <1>1, <1>2

LEMMA BatchEndStep ==
    ASSUME BatchInv, NEW t \in Callers, BatchEnd(t)
    PROVE  BatchInv'
<1>0. BatchShape /\ BatchOK(t) /\ SumsAgree
  BY DEF BatchInv
<1>1. /\ place[t] = "call"
      /\ settled' = [c \in CounterNames |-> settled[c] + tally[t][c]]
      /\ place' = [place EXCEPT ![t] = "idle"]
      /\ batch' = [batch EXCEPT ![t] = NoBatch]
      /\ results' = [results EXCEPT ![t] = <<>>]
      /\ tally' = [tally EXCEPT ![t] = NoneCounted]
      /\ seen' = [seen EXCEPT ![t] = NothingSeen]
      /\ UNCHANGED <<store, batchStats>>
  BY DEF BatchEnd, CounterNames
<1>2. /\ NothingSeen \in [Keys -> SUBSET Replies] /\ <<>> \in Seq(Replies)
      /\ NoneCounted \in Counted
  BY NoneFacts DEF NothingSeen
<1>3. settled \in [CounterNames -> Int] /\ tally[t] \in Counted
  BY <1>0 DEF BatchShape
<1>4. settled' \in [CounterNames -> Int]
  BY <1>1, <1>3 DEF Counted
<1>5. BatchShape'
  BY <1>0, <1>1, <1>2, <1>4 DEF BatchShape, BatchPlaces
<1>6. /\ batch'[t] = NoBatch /\ results'[t] = <<>> /\ tally'[t] = NoneCounted
      /\ place'[t] = "idle"
  BY <1>0, <1>1 DEF BatchShape
<1>7. \A u \in Callers : u # t =>
        BatchOK(u)' /\ \A c \in CounterNames : Counts(u, c)' = Counts(u, c)
  <2>1. \A u \in Callers : u # t =>
          /\ batch'[u] = batch[u] /\ results'[u] = results[u] /\ tally'[u] = tally[u]
          /\ place'[u] = place[u] /\ seen'[u] = seen[u] /\ store' = store
    BY <1>0, <1>1 DEF BatchShape
  <2> QED
    BY <2>1, OthersRest
<1>8. ASSUME NEW c \in CounterNames
      PROVE  batchStats'[c] = settled'[c] + Total(Tallies(c)', Callers)
  <2>1. tally[t][c] \in Nat /\ batchStats[c] \in Nat /\ settled[c] \in Int
    BY <1>0 DEF BatchShape, Counted
  <2>2. Counts(t, c) = tally[t][c]
    BY <1>1, <2>1 DEF Counts
  <2>3. Counts(t, c)' = 0
    BY <1>6, NoneFacts DEF Counts
  <2>4. settled'[c] = settled[c] + tally[t][c]
    BY <1>1
  <2>5. batchStats'[c] + Counts(t, c) + settled[c]
          = batchStats[c] + Counts(t, c)' + settled'[c]
    BY <1>1, <2>1, <2>2, <2>3, <2>4
  <2> QED
    BY <1>0, <1>5, <1>7, <2>5, SumMoves
<1>9. BatchOK(t)'
  <2>1. Done(t)' = 0 /\ NoBatch.op = "none" /\ Len(NoBatch.keys) = 0
    BY <1>6 DEF Done, NoBatch
  <2> QED
    BY <1>6, <2>1 DEF BatchOK
<1> QED
  BY <1>5, <1>7, <1>8, <1>9 DEF BatchInv, SumsAgree

LEMMA BatchInvariance == BatchSpec => []BatchInv
<1>1. BatchInv /\ [BatchNext]_batchVars => BatchInv'
  <2> SUFFICES ASSUME BatchInv, [BatchNext]_batchVars PROVE BatchInv'
    OBVIOUS
  <2>1. CASE UNCHANGED batchVars
    <3>1. BatchShape'
      BY <2>1 DEF batchVars, BatchInv, BatchShape
    <3>2. ASSUME NEW u \in Callers
          PROVE  BatchOK(u)' /\ \A c \in CounterNames : Counts(u, c)' = Counts(u, c)
      <4>1. Done(u)' = Done(u) /\ Tallied(u)' = Tallied(u)
        BY <2>1 DEF batchVars, Done, Tallied
      <4>2. Missed(u, Tallied(u))' = Missed(u, Tallied(u))
        BY <2>1, <4>1 DEF batchVars, Missed
      <4>3. BatchOK(u)'
        BY <2>1, <4>1, <4>2 DEF batchVars, BatchInv, BatchOK
      <4> QED
        BY <2>1, <4>3, SameCounts DEF batchVars
    <3>3. SumsAgree'
      BY <2>1, <3>2, SameSums DEF batchVars, BatchInv
    <3> QED
      BY <3>1, <3>2, <3>3 DEF BatchInv
  <2>2. CASE BatchNext
    BY <2>2, BatchBeginStep, BatchGetStep, BatchCountStep, BatchTallyStep, BatchPutStep,
       BatchRemoveStep, BatchEndStep, BatchResetStep DEF BatchNext
  <2> QED
    BY <2>1, <2>2
<1> QED
  BY <1>1, BatchInitStep, PTL DEF BatchSpec

\* No get of a batch is lost or counted twice, between its two counts and over
\* resets of the statistics (batch.rs, batch_get; cache.rs, get and reset), for
\* any number of threads.
THEOREM BatchesAccount == BatchSpec => []BatchesAddUp
<1>1. BatchInv => BatchesAddUp
  <2> SUFFICES ASSUME BatchInv, NEW c \in CounterNames
               PROVE  batchStats[c] = settled[c]
                                        + FoldFunction(+, 0, [t \in Callers |-> Counts(t, c)])
    BY DEF BatchesAddUp, CounterNames
  <2>1. batchStats[c] = settled[c] + Total(Tallies(c), Callers)
    BY DEF BatchInv, SumsAgree
  <2>2. FoldFunction(+, 0, [t \in Callers |-> Counts(t, c)]) = Total(Tallies(c), Callers)
    BY DEF FoldFunction, Total, Tallies
  <2> QED
    BY <2>1, <2>2
<1> QED
  BY <1>1, BatchInvariance, PTL

\* Each answer of a batch is what its key was mapped to at some moment of the
\* batch, in the keys' order, and the tally is of these answers (batch.rs,
\* batch_get, batch_remove), whatever other threads put, remove and evict.
THEOREM BatchesAnswerTruly == BatchSpec => []AnswersWereTrue
<1>1. BatchInv => AnswersWereTrue
  <2> SUFFICES ASSUME BatchInv, NEW t \in Callers, batch[t].op \in {"get", "remove"}
               PROVE  /\ \A n \in 1 .. Done(t) : results[t][n] \in seen[t][batch[t].keys[n]]
                      /\ place[t] = "call" /\ batch[t].op = "get" =>
                           /\ tally[t].misses = Cardinality(Missed(t, Done(t)))
                           /\ tally[t].hits = Done(t) - Cardinality(Missed(t, Done(t)))
    BY DEF AnswersWereTrue, Missed
  <2>1. BatchOK(t) /\ tally[t] \in Counted /\ results[t] \in Seq(Replies)
    BY DEF BatchInv, BatchShape
  <2>2. tally[t]["hits"] \in Nat /\ tally[t]["misses"] \in Nat /\ Done(t) \in Nat
    BY <2>1 DEF Counted, CounterNames, Done
  <2>3. \A n \in 1 .. Done(t) : results[t][n] \in seen[t][batch[t].keys[n]]
    BY <2>1 DEF BatchOK
  <2>4. ASSUME place[t] = "call", batch[t].op = "get"
        PROVE  /\ tally[t]["misses"] = Cardinality(Missed(t, Done(t)))
               /\ tally[t]["hits"] + tally[t]["misses"] = Done(t)
    <3>1. Tallied(t) = Done(t)
      BY <2>4 DEF Tallied
    <3> QED
      BY <2>1, <2>4, <3>1 DEF BatchOK
  <2> QED
    BY <2>2, <2>3, <2>4
<1> QED
  BY <1>1, BatchInvariance, PTL

===============================================================================
