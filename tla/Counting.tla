------------------------------- MODULE Counting -------------------------------
(***************************************************************************)
(* What the proofs about the cache need to know of numbers and finite      *)
(* sets: induction (over a set of values for which the claim holds, as the *)
(* library's theorems take the claim as an operator), sums of a function   *)
(* over a finite set, and numbers of subsets, which serve as the powers of *)
(* two.  A sum is the number of cells under the function's graph, so that  *)
(* facts about sums are facts about subsets and bijections.                *)
(***************************************************************************)
EXTENDS FiniteSetsExt, Functions, FiniteSetTheorems, TLAPS

-----------------------------------------------------------------------------
(* Induction.                                                              *)

\* A nonempty set of finite subsets of S has one that includes no other.
LEMMA SmallestSubset ==
    ASSUME NEW S, NEW Family, Family # {}, Family \subseteq FiniteSubsetsOf(S)
    PROVE  \E T \in Family : \A U \in Family : U \subseteq T => U = T
<1>1. IsWellFoundedOn(StrictSubsetOrdering(S), FiniteSubsetsOf(S))
  BY FS_StrictSubsetOrderingWellFounded
<1>2. PICK T \in Family : \A U \in Family : <<U, T>> \notin StrictSubsetOrdering(S)
  BY <1>1, WFMin, Zenon
<1>3. ASSUME NEW U \in Family, U \subseteq T, U # T
      PROVE  FALSE
  <2>1. U \in SUBSET S /\ T \in SUBSET S
    BY DEF FiniteSubsetsOf
  <2>2. <<U, T>> \in StrictSubsetOrdering(S)
    BY <1>3, <2>1 DEF StrictSubsetOrdering
  <2> QED
    BY <1>2, <2>2
<1> QED
  BY <1>3

\* What holds of the empty set, and of a set with one element more whenever it
\* holds of the set, holds of every finite set.
LEMMA SetInduction ==
    ASSUME NEW S, IsFiniteSet(S), NEW Good, {} \in Good,
           \A T \in SUBSET S : \A x \in T : T \ {x} \in Good => T \in Good
    PROVE  \A T \in SUBSET S : T \in Good
<1> DEFINE bad == {T \in SUBSET S : T \notin Good}
<1>1. SUFFICES ASSUME bad # {}
               PROVE  FALSE
  OBVIOUS
<1>2. bad \subseteq FiniteSubsetsOf(S)
  BY FS_Subset DEF FiniteSubsetsOf
<1> HIDE DEF bad
<1>3. PICK T \in bad : \A U \in bad : U \subseteq T => U = T
  BY <1>1, <1>2, SmallestSubset
<1>4. T \in SUBSET S /\ T \notin Good /\ T # {}
  BY DEF bad
<1>5. PICK x \in T : TRUE
  BY <1>4
<1>6. T \ {x} \in SUBSET S /\ T \ {x} # T
  BY <1>4, <1>5
<1>7. T \ {x} \in Good
  BY <1>3, <1>6 DEF bad
<1> QED
  BY <1>4, <1>5, <1>7

\* A set that gains or loses one element at most.
LEMMA OneMoreOrLess ==
    ASSUME NEW S, IsFiniteSet(S), NEW T, NEW u, S \ {u} = T \ {u}
    PROVE  /\ IsFiniteSet(T) /\ Cardinality(T) \in Nat /\ Cardinality(S) \in Nat
           /\ (u \in S <=> u \in T) => T = S
           /\ u \in T /\ u \notin S => Cardinality(T) = Cardinality(S) + 1
           /\ u \in S /\ u \notin T => Cardinality(T) = Cardinality(S) - 1
<1>1. Cardinality(S) \in Nat
  BY FS_CardinalityType
<1>2. CASE u \in S <=> u \in T
  <2>1. T = S
    BY <1>2
  <2> QED
    BY <1>1, <1>2, <2>1
<1>3. CASE u \in T /\ u \notin S
  <2>1. T = S \cup {u}
    BY <1>3
  <2>2. IsFiniteSet(S \cup {u}) /\ Cardinality(S \cup {u}) = Cardinality(S) + 1
    BY <1>3, FS_AddElement
  <2> QED
    BY <1>1, <1>3, <2>1, <2>2
<1>4. CASE u \in S /\ u \notin T
  <2>1. T = S \ {u}
    BY <1>4
  <2>2. IsFiniteSet(S \ {u}) /\ Cardinality(S \ {u}) = Cardinality(S) - 1
    BY <1>4, FS_RemoveElement
  <2>3. Cardinality(S \ {u}) \in Nat
    BY <2>2, FS_CardinalityType
  <2> QED
    BY <1>1, <1>4, <2>1, <2>2, <2>3
<1> QED
  BY <1>2, <1>3, <1>4

\* A nonempty set of natural numbers has a least element: its initial segments
\* are well-founded under strict inclusion.
LEMMA MinOfNaturals ==
    ASSUME NEW S \in SUBSET Nat, S # {}
    PROVE  Min(S) \in S /\ \A x \in S : Min(S) <= x
<1> DEFINE segments == {0 .. x : x \in S}
<1>1. segments \subseteq FiniteSubsetsOf(Nat) /\ segments # {}
  <2>1. ASSUME NEW x \in S
        PROVE  0 .. x \in FiniteSubsetsOf(Nat)
    <3>1. 0 \in Int /\ x \in Int /\ 0 .. x \subseteq Nat
      OBVIOUS
    <3>2. IsFiniteSet(0 .. x)
      BY <3>1, FS_Interval
    <3> QED
      BY <3>1, <3>2 DEF FiniteSubsetsOf
  <2> QED
    BY <2>1
<1>2. IsWellFoundedOn(StrictSubsetOrdering(Nat), FiniteSubsetsOf(Nat))
  BY FS_StrictSubsetOrderingWellFounded
<1> HIDE DEF segments
<1>3. PICK least \in segments :
        \A y \in segments : <<y, least>> \notin StrictSubsetOrdering(Nat)
  BY <1>1, <1>2, WFMin, Zenon
<1>4. PICK m \in S : least = 0 .. m
  BY DEF segments
<1>5. ASSUME NEW x \in S, x < m
      PROVE  FALSE
  <2>1. 0 .. x \in segments
    BY DEF segments
  <2>2. /\ 0 .. x \in SUBSET Nat /\ 0 .. m \in SUBSET Nat
        /\ 0 .. x \subseteq 0 .. m /\ 0 .. x # 0 .. m
    <3>1. m \in 0 .. m /\ m \notin 0 .. x
      BY <1>5
    <3> QED
      BY <3>1, <1>5
  <2>3. <<0 .. x, 0 .. m>> \in StrictSubsetOrdering(Nat)
    BY <2>2 DEF StrictSubsetOrdering
  <2> QED
    BY <2>1, <2>3, <1>3, <1>4
<1>6. \A x \in S : m <= x
  BY <1>5
<1> QED
  BY <1>4, <1>6 DEF Min

\* A nonempty finite set of numbers has a greatest one.
LEMMA MaxOfNaturals ==
    ASSUME NEW S \in SUBSET Nat, IsFiniteSet(S), S # {}
    PROVE  Max(S) \in S /\ \A x \in S : x <= Max(S)
<1> DEFINE from(k) == {j \in S : j >= k}
           tails == {from(k) : k \in S}
<1>1. tails \subseteq FiniteSubsetsOf(S) /\ tails # {}
  <2>1. \A k \in S : from(k) \in SUBSET S /\ IsFiniteSet(from(k))
    BY FS_Subset
  <2> QED
    BY <2>1 DEF FiniteSubsetsOf
<1>2. IsWellFoundedOn(StrictSubsetOrdering(S), FiniteSubsetsOf(S))
  BY FS_StrictSubsetOrderingWellFounded
<1>3. PICK least \in tails : \A y \in tails : <<y, least>> \notin StrictSubsetOrdering(S)
  <2> HIDE DEF tails
  <2> QED
    BY <1>1, <1>2, WFMin, Zenon
<1>4. PICK m \in S : least = from(m)
  OBVIOUS
<1>5. ASSUME NEW j \in S, ~(j <= m)
      PROVE  FALSE
  <2>1. /\ from(j) \in tails /\ from(j) \in SUBSET S /\ from(m) \in SUBSET S
    OBVIOUS
  <2>2. j \in Nat /\ m \in Nat /\ \A x \in S : x \in Nat
    OBVIOUS
  <2>3. from(j) \subseteq from(m) /\ m \in from(m) /\ m \notin from(j)
    <3>1. \A x \in S : x >= j => x >= m
      BY <1>5, <2>2
    <3>2. m >= m /\ ~(m >= j)
      BY <1>5, <2>2
    <3> QED
      BY <3>1, <3>2
  <2>4. <<from(j), from(m)>> \in StrictSubsetOrdering(S)
    BY <2>1, <2>3 DEF StrictSubsetOrdering
  <2> QED
    BY <2>1, <2>4, <1>3, <1>4
<1>6. \E x \in S : \A y \in S : x >= y
  BY <1>5
<1> QED
  BY <1>6 DEF Max

\* What holds of 0, and of n + 1 whenever it holds of n, holds of every number.
LEMMA NatInduct ==
    ASSUME NEW Good, 0 \in Good, \A n \in Nat : n \in Good => n + 1 \in Good
    PROVE  \A n \in Nat : n \in Good
<1> DEFINE bad == {n \in Nat : n \notin Good}
<1>1. SUFFICES ASSUME bad # {}
               PROVE  FALSE
  OBVIOUS
<1>2. bad \in SUBSET Nat
  OBVIOUS
<1> HIDE DEF bad
<1>3. Min(bad) \in bad /\ \A x \in bad : Min(bad) <= x
  BY <1>1, <1>2, MinOfNaturals
<1>4. PICK n \in bad : \A x \in bad : n <= x
  BY <1>3
<1>5. n \in Nat /\ n # 0
  BY DEF bad
<1>6. n - 1 \in Nat /\ n - 1 + 1 = n /\ ~(n <= n - 1)
  BY <1>5
<1>7. n - 1 \in Good
  BY <1>4, <1>6 DEF bad
<1> QED
  BY <1>6, <1>7 DEF bad

-----------------------------------------------------------------------------
(* Quotients and remainders.                                               *)

\* Every number is a quotient and a remainder.
LEMMA Division ==
    ASSUME NEW a \in Nat, NEW w \in Nat \ {0}
    PROVE  /\ a \div w \in Nat /\ a % w \in 0 .. w - 1
           /\ a = w * (a \div w) + (a % w)
<1>1. a \div w \in Nat /\ a % w \in 0 .. w - 1
  OBVIOUS
<1>2. a = w * (a \div w) + (a % w)
  BY Z3
<1> QED
  BY <1>1, <1>2

LEMMA QuotRem ==
    ASSUME NEW a \in Nat, NEW w \in Nat \ {0}
    PROVE  \E q \in Nat, r \in 0 .. w - 1 : a = w * q + r /\ a % w = r
<1>1. a \div w \in Nat /\ a % w \in 0 .. w - 1
  OBVIOUS
<1>2. a = w * (a \div w) + (a % w)
  BY Z3
<1> QED
  BY <1>1, <1>2, Zenon

LEMMA ModUnique ==
    ASSUME NEW w \in Nat \ {0}, NEW q \in Nat, NEW r \in 0 .. w - 1
    PROVE  (w * q + r) % w = r
  OBVIOUS

\* Adding multiples of w changes nothing modulo w.
LEMMA ModMultiple ==
    ASSUME NEW a \in Nat, NEW k \in Nat, NEW w \in Nat \ {0}
    PROVE  (a + w * k) % w = a % w
<1>1. PICK q \in Nat, r \in 0 .. w - 1 : a = w * q + r /\ a % w = r
  BY QuotRem
<1>2. a + w * k = w * (q + k) + r
  BY <1>1
<1>3. (w * (q + k) + r) % w = r
  BY ModUnique
<1> QED
  BY <1>1, <1>2, <1>3

\* A modulus may be taken twice, first by a multiple.
LEMMA ModMod ==
    ASSUME NEW a \in Nat, NEW w \in Nat \ {0}, NEW big \in Nat \ {0}, big % w = 0
    PROVE  (a % big) % w = a % w
<1>1. PICK q \in Nat, r \in 0 .. big - 1 : a = big * q + r /\ a % big = r
  BY QuotRem
<1>2. PICK m \in Nat : big = w * m
  <2>1. PICK q0 \in Nat, r0 \in 0 .. w - 1 : big = w * q0 + r0 /\ big % w = r0
    BY QuotRem
  <2>2. r0 = 0
    BY <2>1
  <2>3. big = w * q0
    BY <2>1, <2>2
  <2> QED
    BY <2>3
<1>3. a = r + w * (m * q) /\ m * q \in Nat /\ r \in Nat
  <2>1. big * q = w * (m * q)
    BY <1>2
  <2> QED
    BY <1>1, <2>1
<1>4. (r + w * (m * q)) % w = r % w
  BY <1>3, ModMultiple
<1> QED
  BY <1>1, <1>3, <1>4

Congruent(a, b, w) == a % w = b % w

\* Adding the same amount to two numbers keeps them in one class ...
LEMMA ModShift ==
    ASSUME NEW a \in Nat, NEW b \in Nat, NEW c \in Nat, NEW w \in Nat \ {0},
           Congruent(a, b, w)
    PROVE  Congruent(a + c, b + c, w)
<1>1. PICK p \in Nat, r \in 0 .. w - 1 : a = w * p + r /\ a % w = r
  BY QuotRem
<1>2. PICK q \in Nat, s \in 0 .. w - 1 : b = w * q + s /\ b % w = s
  BY QuotRem
<1>3. r = s /\ r + c \in Nat
  BY <1>1, <1>2 DEF Congruent
<1>4. a + c = (r + c) + w * p /\ b + c = (r + c) + w * q
  BY <1>1, <1>2, <1>3
<1>5. /\ ((r + c) + w * p) % w = (r + c) % w
      /\ ((r + c) + w * q) % w = (r + c) % w
  BY <1>3, ModMultiple
<1> QED
  BY <1>4, <1>5 DEF Congruent

\* ... and never brings together two of different classes: adding the rest of
\* a multiple of w undoes it.
LEMMA ModCancel ==
    ASSUME NEW a \in Nat, NEW b \in Nat, NEW c \in Nat, NEW w \in Nat \ {0},
           Congruent(a + c, b + c, w)
    PROVE  Congruent(a, b, w)
<1>1. PICK p \in Nat, r \in 0 .. w - 1 : c = w * p + r /\ c % w = r
  BY QuotRem
<1>2. w - r \in Nat /\ p + 1 \in Nat /\ a + c \in Nat /\ b + c \in Nat
  BY <1>1
<1>3. Congruent((a + c) + (w - r), (b + c) + (w - r), w)
  BY <1>2, ModShift
<1>4. /\ (a + c) + (w - r) = a + w * (p + 1)
      /\ (b + c) + (w - r) = b + w * (p + 1)
  <2>1. w * (p + 1) = w * p + w
    BY <1>1
  <2> QED
    BY <1>1, <2>1
<1>5. (a + w * (p + 1)) % w = a % w /\ (b + w * (p + 1)) % w = b % w
  BY <1>2, ModMultiple
<1> QED
  BY <1>3, <1>4, <1>5 DEF Congruent

-----------------------------------------------------------------------------
(* Sums.                                                                   *)

\* The sum of f over the elements of S.
Total(f, S) == FoldFunctionOnSet(+, 0, f, S)

\* The cells under the graph of f over S.
Under(f, S) == {p \in S \X Nat : p[2] < f[p[1]]}

\* The column of cells over one element.
Column(x, n) == {x} \X (0 .. n - 1)

LEMMA ColumnSize ==
    ASSUME NEW x, NEW n \in Nat
    PROVE  IsFiniteSet(Column(x, n)) /\ Cardinality(Column(x, n)) = n
<1>1. IsFiniteSet({x}) /\ Cardinality({x}) = 1
  BY FS_Singleton
<1>2. 0 \in Int /\ n - 1 \in Int /\ n - 1 - 0 + 1 = n /\ (0 > n - 1 => n = 0)
  OBVIOUS
<1>3. IsFiniteSet(0 .. n - 1) /\ Cardinality(0 .. n - 1) = n
  BY <1>2, FS_Interval
<1>4. 1 * n = n
  OBVIOUS
<1> QED
  BY <1>1, <1>3, <1>4, FS_Product DEF Column

\* One element more.
LEMMA UnderStep ==
    ASSUME NEW S, NEW f, \A x \in S : f[x] \in Nat,
           NEW T \in SUBSET S, NEW x \in T,
           IsFiniteSet(Under(f, T \ {x}))
    PROVE  /\ IsFiniteSet(Under(f, T))
           /\ Cardinality(Under(f, T)) = f[x] + Cardinality(Under(f, T \ {x}))
<1>1. Under(f, T) = Under(f, T \ {x}) \cup Column(x, f[x])
  <2>1. ASSUME NEW p \in Under(f, T)
        PROVE  p \in Under(f, T \ {x}) \cup Column(x, f[x])
    <3>1. /\ p = <<p[1], p[2]>> /\ p[1] \in T /\ p[2] \in Nat
          /\ p[2] < f[p[1]] /\ f[p[1]] \in Nat
      BY <2>1 DEF Under
    <3>2. CASE p[1] = x
      BY <3>1, <3>2 DEF Column
    <3>3. CASE p[1] # x
      BY <2>1, <3>1, <3>3 DEF Under
    <3> QED
      BY <3>2, <3>3
  <2>2. ASSUME NEW p \in Column(x, f[x])
        PROVE  p \in Under(f, T)
    <3>1. /\ p \in T \X Nat /\ p[1] = x /\ p[2] < f[x]
      BY <2>2 DEF Column
    <3> QED
      BY <3>1 DEF Under
  <2>3. Under(f, T \ {x}) \subseteq Under(f, T)
    BY DEF Under
  <2> QED
    BY <2>1, <2>2, <2>3
<1>2. Under(f, T \ {x}) \cap Column(x, f[x]) = {}
  BY DEF Under, Column
<1>3. f[x] \in Nat
  OBVIOUS
<1>4. IsFiniteSet(Column(x, f[x])) /\ Cardinality(Column(x, f[x])) = f[x]
  BY <1>3, ColumnSize
<1>5. Cardinality({}) = 0 /\ Cardinality(Under(f, T \ {x})) \in Nat
  BY FS_EmptySet, FS_CardinalityType
<1> DEFINE A == Under(f, T \ {x})
           B == Column(x, f[x])
<1>6. IsFiniteSet(A) /\ IsFiniteSet(B) /\ A \cap B = {} /\ Under(f, T) = A \cup B
  BY <1>1, <1>2, <1>4
<1>7. Cardinality(A) \in Nat /\ Cardinality(B) = f[x] /\ Cardinality({}) = 0
  BY <1>4, <1>5
<1> HIDE DEF A, B
<1>8. /\ IsFiniteSet(A \cup B)
      /\ Cardinality(A \cup B) = Cardinality(A) + Cardinality(B) - Cardinality(A \cap B)
  BY <1>6, FS_Union
<1>9. Cardinality(A \cup B) = f[x] + Cardinality(A)
  <2>1. Cardinality(A \cap B) = 0
    BY <1>6, <1>7
  <2>2. Cardinality(A) + f[x] - 0 = f[x] + Cardinality(A)
    BY <1>3, <1>7
  <2> QED
    BY <1>7, <1>8, <2>1, <2>2
<1> QED
  BY <1>6, <1>8, <1>9 DEF A

\* The same of a function whose domain is known.
LEMMA UnderOne ==
    ASSUME NEW S, NEW f \in [S -> Nat], NEW T \in SUBSET S, NEW e \in T,
           IsFiniteSet(Under(f, T \ {e}))
    PROVE  Cardinality(Under(f, T)) = f[e] + Cardinality(Under(f, T \ {e}))
<1>1. \A x \in S : f[x] \in Nat
  OBVIOUS
<1>2. f[e] \in Nat
  OBVIOUS
<1> QED
  BY <1>1, <1>2, UnderStep

LEMMA UnderFinite ==
    ASSUME NEW S, IsFiniteSet(S), NEW f, \A x \in S : f[x] \in Nat
    PROVE  \A T \in SUBSET S :
              /\ IsFiniteSet(Under(f, T))
              /\ Cardinality(Under(f, T)) \in Nat
<1> DEFINE good == {T \in SUBSET S : IsFiniteSet(Under(f, T))}
<1>1. {} \in good
  <2>1. Under(f, {}) = {}
    BY DEF Under
  <2> QED
    BY <2>1, FS_EmptySet
<1>2. ASSUME NEW T \in SUBSET S, NEW x \in T, T \ {x} \in good
      PROVE  T \in good
  BY <1>2, UnderStep
<1> HIDE DEF good
<1>3. \A T \in SUBSET S : T \in good
  BY <1>1, <1>2, SetInduction
<1> QED
  BY <1>3, FS_CardinalityType DEF good

\* A sum is the number of cells under the graph.
LEMMA SumIsSize ==
    ASSUME NEW S, IsFiniteSet(S), NEW f, \A x \in S : f[x] \in Nat
    PROVE  /\ Total(f, S) = Cardinality(Under(f, S))
           /\ IsFiniteSet(Under(f, S))
           /\ Cardinality(Under(f, S)) \in Nat
<1> DEFINE pick(s) == CHOOSE x \in s : TRUE
           turn(g) == [s \in SUBSET S |->
                         IF s = {} THEN 0 ELSE f[pick(s)] + g[s \ {pick(s)}]]
           size == [s \in SUBSET S |-> Cardinality(Under(f, s))]
           iter == CHOOSE g : g = turn(g)
<1>1. Total(f, S) = iter[S]
  BY DEF Total, FoldFunctionOnSet, MapThenFoldSet
<1>2. \A s \in SUBSET S : s # {} => pick(s) \in s /\ s \ {pick(s)} \in SUBSET S
  OBVIOUS
<1>3. ASSUME NEW s \in SUBSET S, s # {}
      PROVE  Cardinality(Under(f, s)) = f[pick(s)] + Cardinality(Under(f, s \ {pick(s)}))
  <2>1. pick(s) \in s /\ IsFiniteSet(Under(f, s \ {pick(s)}))
    BY <1>2, <1>3, UnderFinite
  <2> HIDE DEF pick
  <2> QED
    BY <2>1, UnderStep
<1>4. Under(f, {}) = {} /\ Cardinality({}) = 0
  BY FS_EmptySet DEF Under
<1> HIDE DEF pick
<1>5. size = turn(size)
  BY <1>2, <1>3, <1>4
<1> HIDE DEF size
<1>6. iter = turn(iter)
  BY <1>5
<1> HIDE DEF iter
<1> DEFINE good == {s \in SUBSET S : iter[s] = size[s]}
<1>7. {} \in good
  BY <1>5, <1>6
<1>8. \A s \in SUBSET S : s # {} => (s \ {pick(s)} \in good => s \in good)
  BY <1>2, <1>5, <1>6
<1>9. \A s \in SUBSET S : s \in good
  <2> DEFINE bad == {s \in SUBSET S : s \notin good}
  <2>1. bad \subseteq FiniteSubsetsOf(S)
    BY FS_Subset DEF FiniteSubsetsOf
  <2> HIDE DEF good
  <2>2. SUFFICES ASSUME bad # {}
                 PROVE  FALSE
    OBVIOUS
  <2>3. PICK s \in bad : \A u \in bad : u \subseteq s => u = s
    <3> HIDE DEF bad
    <3> QED
      BY <2>1, <2>2, SmallestSubset
  <2>4. s # {} /\ s \in SUBSET S /\ s \notin good
    BY <1>7
  <2>5. s \ {pick(s)} \in SUBSET S /\ s \ {pick(s)} # s
    BY <1>2, <2>4
  <2> QED
    BY <1>8, <2>3, <2>4, <2>5
<1>10. iter[S] = size[S]
  BY <1>9
<1> QED
  BY <1>1, <1>10, UnderFinite DEF size

\* A sum over no element.
LEMMA SumOfNone == \A f : Total(f, {}) = 0
<1>1. \A f : Under(f, {}) = {}
  BY DEF Under
<1> QED
  BY <1>1, SumIsSize, FS_EmptySet

\* A sum is a number, and no more than that of greater terms.
LEMMA SumMonotone ==
    ASSUME NEW S, IsFiniteSet(S), NEW f, NEW g,
           \A x \in S : f[x] \in Nat /\ g[x] \in Nat /\ f[x] <= g[x]
    PROVE  /\ Total(f, S) \in Nat
           /\ Total(g, S) \in Nat
           /\ Total(f, S) <= Total(g, S)
<1>1. /\ Total(f, S) = Cardinality(Under(f, S))
      /\ Total(g, S) = Cardinality(Under(g, S))
      /\ IsFiniteSet(Under(g, S))
      /\ Cardinality(Under(f, S)) \in Nat /\ Cardinality(Under(g, S)) \in Nat
  BY SumIsSize
<1>2. Under(f, S) \subseteq Under(g, S)
  <2>1. ASSUME NEW p \in Under(f, S)
        PROVE  p \in Under(g, S)
    <3>1. p \in S \X Nat /\ p[1] \in S /\ p[2] \in Nat /\ p[2] < f[p[1]]
      BY DEF Under
    <3>2. p[2] < g[p[1]]
      BY <3>1
    <3> QED
      BY <3>1, <3>2 DEF Under
  <2> QED
    BY <2>1
<1> QED
  BY <1>1, <1>2, FS_Subset

\* Of two functions that differ at one element, by a term one greater at most.
LEMMA SumPlusOne ==
    ASSUME NEW S, IsFiniteSet(S), NEW f, NEW g, NEW x \in S,
           \A y \in S : f[y] \in Nat /\ g[y] \in Nat,
           \A y \in S \ {x} : g[y] <= f[y],
           g[x] <= f[x] + 1
    PROVE  Total(g, S) <= Total(f, S) + 1
<1> DEFINE F == Under(f, S)
           top == <<x, f[x]>>
<1> DEFINE G == Under(g, S)
<1>0. /\ Total(f, S) = Cardinality(F)
      /\ Total(g, S) = Cardinality(G)
  BY SumIsSize
<1>1. IsFiniteSet(F) /\ Cardinality(F) \in Nat /\ Cardinality(G) \in Nat
  BY SumIsSize
<1>2. G \subseteq F \cup {top}
  <2>1. ASSUME NEW p \in G
        PROVE  p \in F \cup {top}
    <3>1. p \in S \X Nat /\ p = <<p[1], p[2]>> /\ p[1] \in S /\ p[2] \in Nat /\ p[2] < g[p[1]]
      BY DEF Under
    <3>2. CASE p[1] = x
      <4>1. p[2] < f[x] \/ p[2] = f[x]
        BY <3>1, <3>2
      <4> QED
        BY <3>1, <3>2, <4>1 DEF Under
    <3>3. CASE p[1] # x
      <4>1. p[2] < f[p[1]]
        BY <3>1, <3>3
      <4> QED
        BY <3>1, <4>1 DEF Under
    <3> QED
      BY <3>2, <3>3
  <2> QED
    BY <2>1
<1> HIDE DEF F, G, top
<1>3. /\ IsFiniteSet(F \cup {top}) /\ Cardinality(F \cup {top}) \in Nat
      /\ Cardinality(F \cup {top}) <= Cardinality(F) + 1
  <2>1. CASE top \in F
    <3>1. F \cup {top} = F
      BY <2>1
    <3> QED
      BY <1>1, <3>1
  <2>2. CASE top \notin F
    <3>1. IsFiniteSet(F \cup {top}) /\ Cardinality(F \cup {top}) = Cardinality(F) + 1
      BY <1>1, <2>2, FS_AddElement
    <3> QED
      BY <1>1, <3>1
  <2> QED
    BY <2>1, <2>2
<1>4. Cardinality(G) <= Cardinality(F \cup {top})
  BY <1>2, <1>3, FS_Subset
<1>5. Cardinality(G) <= Cardinality(F) + 1
  BY <1>1, <1>3, <1>4
<1> QED
  BY <1>0, <1>5

\* Of two functions that agree but at one element, the sums differ as they do there.
LEMMA SumChangeOne ==
    ASSUME NEW S, IsFiniteSet(S), NEW f \in [S -> Nat], NEW g \in [S -> Nat], NEW x \in S,
           \A y \in S \ {x} : g[y] = f[y]
    PROVE  /\ Total(f, S) \in Nat /\ Total(g, S) \in Nat
           /\ Total(g, S) + f[x] = Total(f, S) + g[x]
<1>0. \A y \in S : f[y] \in Nat /\ g[y] \in Nat
  OBVIOUS
<1>1. /\ Total(f, S) = Cardinality(Under(f, S)) /\ Total(g, S) = Cardinality(Under(g, S))
      /\ Cardinality(Under(f, S)) \in Nat /\ Cardinality(Under(g, S)) \in Nat
  BY <1>0, SumIsSize
<1>2. S \in SUBSET S /\ S \ {x} \in SUBSET S /\ f[x] \in Nat /\ g[x] \in Nat
  OBVIOUS
<1>3. Under(g, S \ {x}) = Under(f, S \ {x})
  <2>1. ASSUME NEW p \in (S \ {x}) \X Nat
        PROVE  p[2] < g[p[1]] <=> p[2] < f[p[1]]
    OBVIOUS
  <2> QED
    BY <2>1 DEF Under
<1>4. /\ IsFiniteSet(Under(f, S \ {x})) /\ Cardinality(Under(f, S \ {x})) \in Nat
      /\ IsFiniteSet(Under(g, S \ {x}))
  BY <1>0, <1>2, UnderFinite
<1>5. Cardinality(Under(f, S)) = f[x] + Cardinality(Under(f, S \ {x}))
  BY <1>2, <1>4, UnderOne
<1>6. Cardinality(Under(g, S)) = g[x] + Cardinality(Under(g, S \ {x}))
  BY <1>2, <1>4, UnderOne
<1> QED
  BY <1>1, <1>2, <1>3, <1>4, <1>5, <1>6

\* Terms of half the size at most make a sum of half the size at most.
LEMMA SumHalf ==
    ASSUME NEW S, IsFiniteSet(S), NEW f, NEW g,
           \A x \in S : f[x] \in Nat /\ g[x] \in Nat /\ 2 * g[x] <= f[x]
    PROVE  2 * Total(g, S) <= Total(f, S)
<1> DEFINE F == Under(f, S)
           G == Under(g, S)
           B == {0, 1}
           up == [p \in G \X B |-> <<p[1][1], 2 * p[1][2] + p[2]>>]
<1>0. /\ Total(f, S) = Cardinality(F)
      /\ Total(g, S) = Cardinality(G)
  BY SumIsSize
<1>1. /\ IsFiniteSet(F) /\ Cardinality(F) \in Nat
      /\ IsFiniteSet(G) /\ Cardinality(G) \in Nat
  BY SumIsSize
<1>2. IsFiniteSet(B) /\ Cardinality(B) = 2
  <2>1. B = 0 .. 1 /\ 0 \in Int /\ 1 \in Int /\ 1 - 0 + 1 = 2 /\ ~(0 > 1)
    OBVIOUS
  <2> QED
    BY <2>1, FS_Interval
<1>3. Cardinality(G \X B) = Cardinality(G) * 2
  <2> HIDE DEF B, G
  <2>1. Cardinality(G \X B) = Cardinality(G) * Cardinality(B)
    BY <1>1, <1>2, FS_Product
  <2> QED
    BY <1>2, <2>1
<1>4. ASSUME NEW p \in G \X B
      PROVE  up[p] \in F
  <2>1. /\ p[1][1] \in S /\ p[1][2] \in Nat /\ p[1][2] < g[p[1][1]] /\ p[2] \in B
    BY <1>4 DEF Under
  <2>2. 2 * p[1][2] + p[2] \in Nat /\ 2 * p[1][2] + p[2] < f[p[1][1]]
    BY <2>1
  <2> QED
    BY <1>4, <2>1, <2>2 DEF Under
<1>5. ASSUME NEW p \in G \X B, NEW q \in G \X B, up[p] = up[q]
      PROVE  p = q
  <2>1. /\ p = <<<<p[1][1], p[1][2]>>, p[2]>> /\ q = <<<<q[1][1], q[1][2]>>, q[2]>>
        /\ p[1][2] \in Nat /\ q[1][2] \in Nat /\ p[2] \in B /\ q[2] \in B
    BY DEF Under
  <2>2. p[1][1] = q[1][1] /\ 2 * p[1][2] + p[2] = 2 * q[1][2] + q[2]
    BY <1>5
  <2>3. p[1][2] = q[1][2] /\ p[2] = q[2]
    BY <2>1, <2>2
  <2> QED
    BY <2>1, <2>2, <2>3
<1>6. up \in Injection(G \X B, F)
  <2>1. up \in [G \X B -> F]
    BY <1>4
  <2> QED
    BY <1>5, <2>1 DEF Injection, IsInjective
<1> HIDE DEF F, G, B, up
<1>7. Cardinality(G \X B) <= Cardinality(F)
  BY <1>1, <1>6, FS_Injection
<1>8. 2 * Cardinality(G) <= Cardinality(F)
  BY <1>1, <1>3, <1>7
<1> QED
  BY <1>0, <1>8

\* Functions that agree on a set have one sum over it.
LEMMA SumSame ==
    ASSUME NEW S, IsFiniteSet(S), NEW f, NEW g,
           \A x \in S : f[x] \in Nat /\ g[x] = f[x]
    PROVE  Total(g, S) = Total(f, S) /\ Total(f, S) \in Nat
<1>1. /\ Total(f, S) \in Nat /\ Total(g, S) \in Nat
      /\ Total(f, S) <= Total(g, S) /\ Total(g, S) <= Total(f, S)
  <2>1. Total(f, S) \in Nat /\ Total(g, S) \in Nat /\ Total(f, S) <= Total(g, S)
    <3>1. \A x \in S : f[x] \in Nat /\ g[x] \in Nat /\ f[x] <= g[x]
      OBVIOUS
    <3> QED
      BY <3>1, SumMonotone
  <2>2. Total(g, S) <= Total(f, S)
    <3>1. \A x \in S : g[x] \in Nat /\ f[x] \in Nat /\ g[x] <= f[x]
      OBVIOUS
    <3> QED
      BY <3>1, SumMonotone
  <2> QED
    BY <2>1, <2>2
<1> QED
  BY <1>1

\* A sum is one of its terms and the sum of the others.
LEMMA SumOne ==
    ASSUME NEW R, NEW f \in [R -> Nat], NEW S \in SUBSET R, IsFiniteSet(S), NEW x \in S
    PROVE  /\ Total(f, S) \in Nat /\ Total(f, S \ {x}) \in Nat
           /\ Total(f, S) = f[x] + Total(f, S \ {x})
<1>1. /\ \A y \in S : f[y] \in Nat
      /\ \A y \in S \ {x} : f[y] \in Nat
      /\ S \ {x} \in SUBSET S
  OBVIOUS
<1>2. IsFiniteSet(S \ {x})
  BY <1>1, FS_Subset
<1>3. Total(f, S) = Cardinality(Under(f, S)) /\ Cardinality(Under(f, S)) \in Nat
  BY <1>1, SumIsSize
<1>4. /\ Total(f, S \ {x}) = Cardinality(Under(f, S \ {x}))
      /\ IsFiniteSet(Under(f, S \ {x})) /\ Cardinality(Under(f, S \ {x})) \in Nat
  BY <1>1, <1>2, SumIsSize
<1>5. Cardinality(Under(f, S)) = f[x] + Cardinality(Under(f, S \ {x}))
  BY <1>4, UnderOne
<1> QED
  BY <1>3, <1>4, <1>5

\* Halving term by term loses one half for each term at most.
LEMMA SumOfHalves ==
    ASSUME NEW R, NEW f \in [R -> Nat], NEW g \in [R -> Nat],
           NEW S \in SUBSET R, IsFiniteSet(S),
           \A x \in S : f[x] <= 2 * g[x] + 1
    PROVE  Total(f, S) <= 2 * Total(g, S) + Cardinality(S)
<1>0. ASSUME NEW Q, NEW d \in [Q -> Nat], NEW U \in SUBSET Q, IsFiniteSet(U), NEW x \in U
      PROVE  /\ Total(d, U) \in Nat /\ Total(d, U \ {x}) \in Nat
             /\ Total(d, U) = d[x] + Total(d, U \ {x})
  BY <1>0, SumOne
<1> DEFINE good == {T \in SUBSET S : Total(f, T) <= 2 * Total(g, T) + Cardinality(T)}
<1>1. {} \in good
  <2>1. Total(f, {}) = 0 /\ Total(g, {}) = 0 /\ Cardinality({}) = 0
    BY SumOfNone, FS_EmptySet
  <2> QED
    BY <2>1
<1>2. ASSUME NEW T \in SUBSET S, NEW x \in T, T \ {x} \in good
      PROVE  T \in good
  <2>0. IsFiniteSet(T) /\ T \in SUBSET R
    BY FS_Subset
  <2>1. /\ IsFiniteSet(T) /\ f[x] \in Nat /\ g[x] \in Nat
        /\ f[x] <= 2 * g[x] + 1
    BY <2>0
  <2>2. /\ Cardinality(T) \in Nat /\ Cardinality(T \ {x}) \in Nat
        /\ Cardinality(T) = Cardinality(T \ {x}) + 1
    <3>1. IsFiniteSet(T \ {x}) /\ Cardinality(T \ {x}) = Cardinality(T) - 1
      BY <2>1, FS_RemoveElement
    <3>2. Cardinality(T) \in Nat /\ Cardinality(T \ {x}) \in Nat
      BY <2>1, <3>1, FS_CardinalityType
    <3> QED
      BY <3>1, <3>2
  <2>3. /\ Total(f, T) \in Nat /\ Total(f, T \ {x}) \in Nat
        /\ Total(f, T) = f[x] + Total(f, T \ {x})
    BY <1>0, <2>0
  <2>4. /\ Total(g, T) \in Nat /\ Total(g, T \ {x}) \in Nat
        /\ Total(g, T) = g[x] + Total(g, T \ {x})
    BY <1>0, <2>0
  <2>5. Total(f, T \ {x}) <= 2 * Total(g, T \ {x}) + Cardinality(T \ {x})
    BY <1>2
  <2>6. Total(f, T) <= 2 * Total(g, T) + Cardinality(T)
    BY <2>1, <2>2, <2>3, <2>4, <2>5
  <2> QED
    BY <2>6
<1> HIDE DEF good
<1>3. \A T \in SUBSET S : T \in good
  BY <1>1, <1>2, SetInduction
<1>4. S \in good
  BY <1>3
<1> QED
  BY <1>4 DEF good

-----------------------------------------------------------------------------
(* Halvings.                                                               *)

\* A number halved once for each element of a finite set: a set has twice as
\* many subsets for each element more.
Halvings(Q, v) == v \div Cardinality(SUBSET Q)

LEMMA SubsetsDouble ==
    ASSUME NEW Q, IsFiniteSet(Q), NEW u, u \notin Q
    PROVE  /\ Cardinality(SUBSET Q) \in Nat \ {0}
           /\ Cardinality(SUBSET (Q \cup {u})) = 2 * Cardinality(SUBSET Q)
<1> DEFINE A == SUBSET Q
           B == {T \cup {u} : T \in SUBSET Q}
           add == [T \in A |-> T \cup {u}]
<1>1. SUBSET (Q \cup {u}) = A \cup B
  <2>1. ASSUME NEW T \in SUBSET (Q \cup {u})
        PROVE  T \in A \cup B
    <3>1. CASE u \in T
      <4>1. T \ {u} \in SUBSET Q /\ T = (T \ {u}) \cup {u}
        BY <3>1
      <4> QED
        BY <4>1
    <3>2. CASE u \notin T
      BY <3>2
    <3> QED
      BY <3>1, <3>2
  <2> QED
    BY <2>1
<1>2. A \cap B = {} /\ {} \in A
  OBVIOUS
<1>3. add \in Bijection(A, B)
  <2>1. add \in [A -> B]
    OBVIOUS
  <2>2. ASSUME NEW T \in A, NEW U \in A, add[T] = add[U]
        PROVE  T = U
    <3>1. T \cup {u} = U \cup {u} /\ u \notin T /\ u \notin U
      BY <2>2
    <3> QED
      BY <3>1
  <2>3. \A b \in B : \E T \in A : add[T] = b
    OBVIOUS
  <2> QED
    BY <2>1, <2>2, <2>3 DEF Bijection, Injection, IsInjective, Surjection
<1>4. IsFiniteSet(A)
  BY FS_SUBSET
<1> HIDE DEF A, B, add
<1>5. Cardinality(A) \in Nat /\ Cardinality(A) # 0
  BY <1>2, <1>4, FS_CardinalityType, FS_EmptySet
<1>6. IsFiniteSet(B) /\ Cardinality(B) = Cardinality(A)
  BY <1>3, <1>4, FS_Bijection DEF ExistsBijection
<1>7. Cardinality(A \cup B) = Cardinality(A) + Cardinality(B) - Cardinality(A \cap B)
  BY <1>4, <1>6, FS_Union
<1>8. Cardinality(A \cap B) = 0
  BY <1>2, FS_EmptySet
<1>9. Cardinality(A \cup B) = 2 * Cardinality(A)
  BY <1>5, <1>6, <1>7, <1>8
<1> QED
  BY <1>1, <1>5, <1>9 DEF A

\* Dividing twice.
LEMMA DivTwice ==
    ASSUME NEW v \in Nat, NEW a \in Nat \ {0}, NEW b \in Nat \ {0}
    PROVE  (v \div a) \div b = v \div (a * b)
<1> DEFINE q == v \div a
           r == v % a
           m == q \div b
           s == q % b
           e == v \div (a * b)
           t == v % (a * b)
<1>1. a * b \in Nat \ {0}
  OBVIOUS
<1>2. q \in Nat /\ r \in 0 .. a - 1 /\ v = a * q + r
  BY Division
<1>3. m \in Nat /\ s \in 0 .. b - 1 /\ q = b * m + s
  <2> HIDE DEF q
  <2> QED
    BY <1>2, Division
<1>4. e \in Nat /\ t \in 0 .. a * b - 1 /\ v = (a * b) * e + t
  <2> DEFINE c == a * b
  <2>1. c \in Nat \ {0}
    BY <1>1
  <2> HIDE DEF c
  <2>2. v \div c \in Nat /\ v % c \in 0 .. c - 1 /\ v = c * (v \div c) + (v % c)
    BY <2>1, Division
  <2> QED
    BY <2>2 DEF c
<1> HIDE DEF q, r, m, s, e, t
<1>5. v = (a * b) * m + (a * s + r)
  <2>1. a * q = a * (b * m) + a * s
    BY <1>3
  <2>2. a * (b * m) = (a * b) * m
    BY <1>3
  <2> QED
    BY <1>2, <1>3, <2>1, <2>2
<1>6. a * s + r \in 0 .. a * b - 1
  <2>1. a * s <= a * (b - 1)
    BY <1>3
  <2>2. a * (b - 1) = a * b - a
    OBVIOUS
  <2>3. a * s \in Nat
    BY <1>3
  <2> QED
    BY <1>1, <1>2, <2>1, <2>2, <2>3
<1>7. m = e
  <2> DEFINE c == a * b
             x == a * s + r
  <2>1. c \in Nat \ {0} /\ x \in 0 .. c - 1 /\ t \in 0 .. c - 1 /\ c * m + x = c * e + t
    BY <1>1, <1>4, <1>5, <1>6
  <2> HIDE DEF c, x
  <2>2. ASSUME m < e
        PROVE  FALSE
    <3>1. c * (m + 1) <= c * e /\ c * (m + 1) = c * m + c
      BY <1>3, <1>4, <2>1, <2>2
    <3> QED
      BY <1>3, <1>4, <2>1, <3>1
  <2>3. ASSUME e < m
        PROVE  FALSE
    <3>1. c * (e + 1) <= c * m /\ c * (e + 1) = c * e + c
      BY <1>3, <1>4, <2>1, <2>3
    <3> QED
      BY <1>3, <1>4, <2>1, <3>1
  <2> QED
    BY <1>3, <1>4, <2>2, <2>3
<1> QED
  BY <1>7 DEF m, q, e

LEMMA HalvingsFacts ==
    ASSUME NEW Q, IsFiniteSet(Q), NEW v \in Nat
    PROVE  /\ Halvings(Q, v) \in Nat
           /\ Halvings(Q, v) <= v
           /\ \A w \in Nat : w <= v => Halvings(Q, w) <= Halvings(Q, v)
           /\ Halvings(Q, v + 1) <= Halvings(Q, v) + 1
<1> DEFINE c == Cardinality(SUBSET Q)
<1>1. c \in Nat \ {0}
  <2>1. IsFiniteSet(SUBSET Q) /\ SUBSET Q # {}
    BY FS_SUBSET
  <2> QED
    BY <2>1, FS_CardinalityType, FS_EmptySet
<1> HIDE DEF c
<1>2. /\ v \div c \in Nat
      /\ v \div c <= v
      /\ \A w \in Nat : w <= v => w \div c <= v \div c
      /\ (v + 1) \div c <= v \div c + 1
  <2>1. \A x \in Nat : x \div c \in Nat /\ x = c * (x \div c) + (x % c) /\ x % c \in 0 .. c - 1
    BY <1>1, Division
  <2>2. ASSUME NEW x \in Nat, NEW y \in Nat, x <= y
        PROVE  x \div c <= y \div c
    <3> DEFINE m == x \div c
               n == y \div c
    <3>1. m \in Nat /\ n \in Nat /\ c * m <= x /\ y <= c * n + (c - 1)
      BY <1>1, <2>1
    <3> HIDE DEF m, n
    <3>2. ASSUME n < m
          PROVE  FALSE
      <4>1. c * (n + 1) <= c * m /\ c * (n + 1) = c * n + c
        BY <1>1, <3>1, <3>2
      <4> QED
        BY <1>1, <2>2, <3>1, <4>1
    <3> QED
      BY <3>1, <3>2 DEF m, n
  <2>3. v \div c <= v
    <3> DEFINE m == v \div c
    <3>1. m \in Nat /\ c * m <= v
      BY <1>1, <2>1
    <3> HIDE DEF m
    <3>2. 1 * m <= c * m
      BY <1>1, <3>1
    <3> QED
      BY <1>1, <3>1, <3>2 DEF m
  <2>4. (v + 1) \div c <= v \div c + 1
    <3> DEFINE m == v \div c
               n == (v + 1) \div c
    <3>1. m \in Nat /\ n \in Nat /\ c * n <= v + 1 /\ v <= c * m + (c - 1)
      BY <1>1, <2>1
    <3> HIDE DEF m, n
    <3>2. ASSUME m + 1 < n
          PROVE  FALSE
      <4>1. c * (m + 2) <= c * n /\ c * (m + 2) = c * m + 2 * c
        BY <1>1, <3>1, <3>2
      <4> QED
        BY <1>1, <3>1, <4>1
    <3> QED
      BY <3>1, <3>2 DEF m, n
  <2> QED
    BY <2>1, <2>2, <2>3, <2>4
<1> QED
  BY <1>2 DEF Halvings, c

LEMMA HalvingsOfNone == \A v \in Nat : Halvings({}, v) = v
<1>1. SUBSET {} = {{}} /\ Cardinality({{}}) = 1
  BY FS_Singleton
<1>2. Cardinality(SUBSET {}) = 1
  BY <1>1
<1>3. \A v \in Nat : v \div 1 = v
  OBVIOUS
<1> QED
  BY <1>2, <1>3 DEF Halvings

\* One halving more, before the others or after them.
LEMMA HalvingsStep ==
    ASSUME NEW Q, IsFiniteSet(Q), NEW u, u \notin Q, NEW v \in Nat
    PROVE  /\ Halvings(Q \cup {u}, v) = Halvings(Q, v) \div 2
           /\ Halvings(Q \cup {u}, v) = Halvings(Q, v \div 2)
<1> DEFINE c == Cardinality(SUBSET Q)
<1>1. c \in Nat \ {0} /\ Cardinality(SUBSET (Q \cup {u})) = 2 * c
  BY SubsetsDouble
<1> HIDE DEF c
<1>2. (v \div c) \div 2 = v \div (c * 2) /\ (v \div 2) \div c = v \div (2 * c)
  <2>1. 2 \in Nat \ {0}
    OBVIOUS
  <2>2. ASSUME NEW a \in Nat \ {0}, NEW b \in Nat \ {0}
        PROVE  (v \div a) \div b = v \div (a * b)
    BY DivTwice
  <2> QED
    BY <1>1, <2>1, <2>2
<1>3. c * 2 = 2 * c
  BY <1>1
<1> QED
  BY <1>1, <1>2, <1>3 DEF Halvings, c

===============================================================================
