---------------------------- MODULE Nodes_proofs ----------------------------
(***************************************************************************)
(* Proofs about what several nodes make of one another's keys: which node  *)
(* owns a key, which entries an invalidation elsewhere makes stale, and    *)
(* that all hash by a function that tells keys apart.                      *)
(*                                                                         *)
(* Nodes agree on owners, for every number of nodes, generator and float   *)
(* format: the walk of a hash never steps back or on the spot, because     *)
(* rounding keeps the order of what floats hold exactly, as they hold a    *)
(* number of nodes; and the walks of two calls are one until the call with *)
(* fewer nodes ends.                                                       *)
(*                                                                         *)
(* That a log of invalidations shows the latest of what it stands for is   *)
(* not inductive: the next invalidation is the latest only because a       *)
(* node's clock is as late as everything its log stands for, and a merge   *)
(* keeps that only because the copies on the way are as good as the logs   *)
(* they were made of.                                                      *)
(*                                                                         *)
(* Hashes tell keys apart, for words of any width: every step of the hash  *)
(* that takes a word takes no two words to one: a shift and an             *)
(* exclusive or because the bits above give those below back, a            *)
(* multiplication because its factor is odd, a rotation because it loses   *)
(* no bit.  A fold of such steps carries one difference to its end.        *)
(***************************************************************************)
EXTENDS JumpHash, InvalidationLog, SeededHash, Counting

-----------------------------------------------------------------------------
(* Powers of two.                                                          *)

\* The recursion of Two has a solution, as the numbers of subsets are one.
LEMMA TwoDef ==
    /\ Two[0] = 1
    /\ \A n \in Nat : Two[n] \in Nat \ {0} /\ Two[n + 1] = 2 * Two[n]
<1> DEFINE turn(g) == [n \in Nat |-> IF n = 0 THEN 1 ELSE 2 * g[n - 1]]
           sizes == [n \in Nat |-> Cardinality(SUBSET (1 .. n))]
<1>1. ASSUME NEW n \in Nat
      PROVE  sizes[n] \in Nat \ {0} /\ sizes[n + 1] = 2 * sizes[n]
  <2>1. IsFiniteSet(1 .. n) /\ n + 1 \notin 1 .. n /\ n + 1 \in Nat
    BY FS_Interval
  <2>2. 1 .. n + 1 = (1 .. n) \cup {n + 1}
    OBVIOUS
  <2>3. /\ Cardinality(SUBSET (1 .. n)) \in Nat \ {0}
        /\ Cardinality(SUBSET ((1 .. n) \cup {n + 1})) = 2 * Cardinality(SUBSET (1 .. n))
    BY <2>1, SubsetsDouble
  <2> QED
    BY <2>1, <2>2, <2>3
<1>2. sizes[0] = 1
  <2>1. 1 .. 0 = {} /\ SUBSET {} = {{}}
    OBVIOUS
  <2>2. Cardinality({{}}) = 1
    BY FS_Singleton
  <2> QED
    BY <2>1, <2>2
<1>3. sizes = [n \in Nat |-> sizes[n]]
  OBVIOUS
<1> HIDE DEF sizes
<1>4. ASSUME NEW n \in Nat
      PROVE  sizes[n] = IF n = 0 THEN 1 ELSE 2 * sizes[n - 1]
  <2>1. n # 0 => n - 1 \in Nat /\ (n - 1) + 1 = n
    OBVIOUS
  <2> QED
    BY <1>1, <1>2, <2>1
<1>5. sizes = turn(sizes)
  BY <1>3, <1>4
<1>6. Two = turn(Two)
  BY <1>5 DEF Two
<1> DEFINE good == {n \in Nat : Two[n] = sizes[n]}
<1>7. 0 \in good
  BY <1>2, <1>6
<1>8. ASSUME NEW n \in Nat, n \in good
      PROVE  n + 1 \in good
  <2>1. n + 1 \in Nat /\ n + 1 # 0 /\ (n + 1) - 1 = n
    OBVIOUS
  <2>2. Two[n + 1] = 2 * Two[n]
    BY <1>6, <2>1
  <2> QED
    BY <1>1, <1>8, <2>1, <2>2
<1>9. \A n \in Nat : n \in good
  <2> HIDE DEF good
  <2> QED
    BY <1>7, <1>8, NatInduct
<1>10. \A n \in Nat : Two[n] = sizes[n]
  BY <1>9
<1> QED
  BY <1>1, <1>2, <1>10

LEMMA TwoPlus ==
    ASSUME NEW m \in Nat, NEW n \in Nat
    PROVE  Two[m + n] = Two[m] * Two[n]
<1> DEFINE good == {k \in Nat : Two[m + k] = Two[m] * Two[k]}
<1>1. 0 \in good
  <2>1. m + 0 = m /\ Two[m] * 1 = Two[m]
    BY TwoDef
  <2> QED
    BY <2>1, TwoDef
<1>2. ASSUME NEW k \in Nat, k \in good
      PROVE  k + 1 \in good
  <2>1. m + (k + 1) = (m + k) + 1 /\ m + k \in Nat /\ k + 1 \in Nat
    OBVIOUS
  <2>2. Two[(m + k) + 1] = 2 * (Two[m] * Two[k]) /\ Two[k + 1] = 2 * Two[k]
    BY <1>2, <2>1, TwoDef
  <2>3. Two[m] \in Nat /\ Two[k] \in Nat
    BY TwoDef
  <2>4. 2 * (Two[m] * Two[k]) = Two[m] * (2 * Two[k])
    BY <2>3
  <2> QED
    BY <2>1, <2>2, <2>4
<1>3. \A k \in Nat : k \in good
  <2> HIDE DEF good
  <2> QED
    BY <1>1, <1>2, NatInduct
<1> QED
  BY <1>3

LEMMA TwoMonotone ==
    ASSUME NEW m \in Nat, NEW n \in Nat, m <= n
    PROVE  Two[m] <= Two[n]
<1>1. n - m \in Nat /\ m + (n - m) = n
  OBVIOUS
<1>2. Two[n] = Two[m] * Two[n - m]
  BY <1>1, TwoPlus
<1>3. Two[m] \in Nat \ {0} /\ Two[n - m] \in Nat \ {0}
  BY <1>1, TwoDef
<1> DEFINE a == Two[m]
           b == Two[n - m]
<1>4. a \in Nat \ {0} /\ b \in Nat \ {0} /\ Two[n] = a * b
  BY <1>2, <1>3
<1> HIDE DEF a, b
<1>5. b - 1 \in Nat /\ a * (b - 1) \in Nat /\ a * (b - 1) = a * b - a /\ a * b \in Nat
  BY <1>4
<1>6. a <= a * b
  BY <1>4, <1>5
<1> QED
  BY <1>4, <1>6 DEF a

-----------------------------------------------------------------------------
(* Floats.                                                                 *)

\* A product grows with its factor.
LEMMA ProductMonotone ==
    ASSUME NEW a \in Nat, NEW b \in Nat, NEW c \in Nat, a <= b
    PROVE  a * c <= b * c /\ a * c \in Nat /\ b * c \in Nat
<1>1. b - a \in Nat /\ (b - a) * c \in Nat /\ (b - a) * c = b * c - a * c
  OBVIOUS
<1> QED
  BY <1>1

LEMMA JumpTypes ==
    /\ Draws \in Nat \ {0} /\ MaxExponent \in Nat
    /\ Precision \in Nat \ {0}
    /\ \A e \in Nat : Two[e] \in Nat \ {0}
  BY JumpAssumption, TwoDef DEF Binades

\* What is below the largest float has a binade.
LEMMA UlpExists ==
    ASSUME NEW n \in Nat, NEW d \in Nat \ {0},
           n < 2 * Two[MaxExponent] * Precision * d
    PROVE  Ulp(n, d) \in Binades /\ IsUlp(Ulp(n, d), n, d)
<1> DEFINE p == Precision * d
           good == {m \in Nat : n < 2 * (Two[m] * p) => \E e \in 0 .. m : IsUlp(Two[e], n, d)}
<1>1. p \in Nat \ {0}
  BY JumpTypes
<1>2. \A u \in Nat : 2 * u * Precision * d = 2 * (u * p) /\ u * Precision * d = u * p /\ u * p \in Nat
  BY JumpTypes
<1>3. \A u \in Nat \ {0} : IsUlp(u, n, d) <=> n < 2 * (u * p) /\ (u = 1 \/ n >= u * p)
  BY <1>2 DEF IsUlp
<1> HIDE DEF p
<1>4. 0 \in good
  BY <1>3, TwoDef
<1>5. ASSUME NEW m \in Nat, m \in good
      PROVE  m + 1 \in good
  <2>1. SUFFICES ASSUME n < 2 * (Two[m + 1] * p)
                 PROVE  \E e \in 0 .. m + 1 : IsUlp(Two[e], n, d)
    OBVIOUS
  <2>2. ASSUME n < 2 * (Two[m] * p)
        PROVE  \E e \in 0 .. m + 1 : IsUlp(Two[e], n, d)
    <3>1. PICK e \in 0 .. m : IsUlp(Two[e], n, d)
      BY <1>5, <2>2
    <3>2. e \in 0 .. m + 1
      OBVIOUS
    <3> QED
      BY <3>1, <3>2
  <2>3. ASSUME ~ (n < 2 * (Two[m] * p))
        PROVE  \E e \in 0 .. m + 1 : IsUlp(Two[e], n, d)
    <3> DEFINE t == Two[m]
               s == Two[m + 1]
    <3>1. t \in Nat \ {0} /\ s \in Nat \ {0} /\ s = 2 * t
      BY TwoDef
    <3> HIDE DEF t, s
    <3>2. s * p = 2 * (t * p) /\ t * p \in Nat
      BY <1>1, <3>1
    <3>3. n >= s * p
      BY <2>3, <3>2 DEF t
    <3>4. IsUlp(s, n, d)
      BY <1>3, <2>1, <3>1, <3>3 DEF s
    <3>5. m + 1 \in 0 .. m + 1
      OBVIOUS
    <3> QED
      BY <3>4, <3>5 DEF s
  <2> QED
    BY <2>2, <2>3
<1>6. \A m \in Nat : m \in good
  <2> HIDE DEF good
  <2> QED
    BY <1>4, <1>5, NatInduct
<1>7. MaxExponent \in Nat /\ n < 2 * (Two[MaxExponent] * p)
  <2>1. Two[MaxExponent] \in Nat
    BY JumpTypes
  <2> QED
    BY <1>2, <2>1, JumpTypes
<1>8. \E e \in 0 .. MaxExponent : IsUlp(Two[e], n, d)
  BY <1>6, <1>7
<1>9. \E u \in Binades : IsUlp(u, n, d)
  BY <1>8 DEF Binades
<1> QED
  BY <1>9 DEF Ulp

\* The reciprocals are floats, none of them more than twice Draws.
LEMMA ReciprocalIsFloat ==
    ASSUME NEW d \in 1 .. Draws
    PROVE  /\ IsUlp(Ulp(Draws * Precision, d), Draws * Precision, d)
           /\ JumpProb(d) \in Nat /\ JumpProb(d) <= 2 * (Draws * Precision)
<1> DEFINE n == Draws * Precision
           u == Ulp(n, d)
<1>1. d \in Nat \ {0} /\ n \in Nat \ {0} /\ n >= Precision
  BY JumpTypes
<1>2. n < 2 * Two[MaxExponent] * Precision * d
  <2> DEFINE t == Two[MaxExponent]
  <2>1. /\ t \in Nat \ {0} /\ Draws <= t /\ Draws \in Nat /\ Precision \in Nat \ {0}
    BY JumpTypes, JumpAssumption
  <2> HIDE DEF t
  <2>2. Draws * Precision <= t * Precision /\ t * Precision \in Nat \ {0}
    BY <2>1, ProductMonotone
  <2>3. (t * Precision) * 1 <= (t * Precision) * d
    BY <1>1, <2>2
  <2>4. 2 * t * Precision * d = 2 * ((t * Precision) * d) /\ (t * Precision) * d \in Nat
    BY <1>1, <2>1
  <2> DEFINE e == t * Precision
  <2>5. n <= e /\ e \in Nat \ {0} /\ e * 1 <= e * d
    BY <2>2, <2>3
  <2>6. 2 * t * Precision * d = 2 * (e * d) /\ e * d \in Nat
    BY <2>4
  <2> HIDE DEF e
  <2>7. n < 2 * (e * d)
    BY <1>1, <2>5, <2>6
  <2> QED
    BY <2>6, <2>7 DEF t
<1>3. IsUlp(u, n, d)
  BY <1>1, <1>2, UlpExists
<1> HIDE DEF n
<1>4. u \in Nat \ {0} /\ (u = 1 \/ n >= u * Precision * d)
  BY <1>3 DEF IsUlp
<1> HIDE DEF u
<1>5. u <= n
  <2>1. CASE u = 1
    BY <1>1, <2>1
  <2>2. CASE n >= u * Precision * d
    <3>1. Precision * d \in Nat \ {0} /\ u * Precision * d = u * (Precision * d)
      BY <1>1, <1>4, JumpTypes
    <3>2. u * 1 <= u * (Precision * d)
      BY <1>4, <3>1
    <3> QED
      BY <1>1, <1>4, <2>2, <3>1, <3>2
  <2> QED
    BY <1>4, <2>1, <2>2
<1> DEFINE w == u * d
           q == n \div w
<1>6. w \in Nat \ {0} /\ u <= w
  BY <1>1, <1>4
<1>7. q \in Nat /\ w * q <= n
  <2> HIDE DEF w
  <2> QED
    BY <1>1, <1>6, Division
<1>8. u * q <= w * q /\ u * q \in Nat
  <2> HIDE DEF w, q
  <2> QED
    BY <1>4, <1>6, <1>7, ProductMonotone
<1>9. Nearest(n, w) = q \/ Nearest(n, w) = q + 1
  BY DEF Nearest
<1>10. u * Nearest(n, w) \in Nat /\ u * Nearest(n, w) <= u * q + u
  <2> HIDE DEF w, q
  <2>1. u * (q + 1) = u * q + u
    BY <1>4, <1>7
  <2> QED
    BY <1>4, <1>7, <1>8, <1>9, <2>1
<1>11. u * q <= n /\ w * q \in Nat
  <2> HIDE DEF w, q
  <2> QED
    BY <1>1, <1>6, <1>7, <1>8
<1>12. JumpProb(d) = u * Nearest(n, w)
  BY DEF JumpProb, Rounded, n, u
<1> HIDE DEF q, w
<1>13. JumpProb(d) \in Nat /\ JumpProb(d) <= 2 * n
  BY <1>1, <1>4, <1>5, <1>8, <1>10, <1>11, <1>12
<1> QED
  BY <1>3, <1>13 DEF n, u

\* So are the products; and where one is no larger than its first factor's binade,
\* that factor is a whole number of its last places.
LEMMA ProductIsFloat ==
    ASSUME NEW n \in Sizes, NEW b \in 0 .. n - 1, NEW d \in 1 .. Draws,
           NEW product, product = (b + 1) * JumpProb(d)
    PROVE  /\ IsUlp(Ulp(product, 1), product, 1)
           /\ b + 1 > Ulp(product, 1) => ((b + 1) * Precision) % Ulp(product, 1) = 0
<1> DEFINE m == b + 1
           u == Ulp(product, 1)
           t == Two[MaxExponent]
<1>1. /\ n \in Int /\ n <= Precision /\ n * Draws < t
      /\ t \in Nat \ {0} /\ Draws \in Nat \ {0} /\ Precision \in Nat \ {0}
  BY JumpAssumption, JumpTypes
<1>2. n \in Nat \ {0} /\ m \in Nat \ {0} /\ m <= n
  BY <1>1
<1>3. JumpProb(d) \in Nat /\ JumpProb(d) <= 2 * (Draws * Precision)
  BY ReciprocalIsFloat
<1> HIDE DEF m, t
<1>4. product \in Nat /\ product < 2 * t * Precision * 1
  <2> DEFINE j == JumpProb(d)
             top == 2 * (Draws * Precision)
  <2>1. j \in Nat /\ top \in Nat /\ j <= top /\ product = m * j
    BY <1>1, <1>3 DEF m
  <2>2. top = (2 * Draws) * Precision
    BY <1>1
  <2> HIDE DEF j, top
  <2>3. m * j \in Nat /\ m * j <= m * top /\ m * top <= n * top
    <3>1. j * m <= top * m /\ j * m \in Nat
      BY <1>2, <2>1, ProductMonotone
    <3>2. m * top <= n * top
      BY <1>2, <2>1, ProductMonotone
    <3>3. j * m = m * j /\ top * m = m * top
      BY <1>2, <2>1
    <3> QED
      BY <3>1, <3>2, <3>3
  <2>4. n * top = (2 * (n * Draws)) * Precision
    BY <1>1, <1>2, <2>2
  <2>5. n * Draws \in Nat /\ n * Draws + 1 <= t
    BY <1>1, <1>2
  <2> DEFINE k == n * Draws
  <2> HIDE DEF k
  <2>6. k \in Nat /\ k + 1 <= t /\ n * top = (2 * k) * Precision
    BY <2>4, <2>5 DEF k
  <2>7. (k + 1) * (2 * Precision) <= t * (2 * Precision) /\ t * (2 * Precision) \in Nat
    BY <1>1, <2>6, ProductMonotone
  <2>8. (k + 1) * (2 * Precision) = (2 * k) * Precision + 2 * Precision
    BY <1>1, <2>6
  <2>9. t * (2 * Precision) = 2 * t * Precision * 1
    BY <1>1
  <2>10. m * top \in Nat /\ n * top \in Nat
    BY <1>2, <2>1
  <2> QED
    BY <1>1, <2>1, <2>3, <2>6, <2>7, <2>8, <2>9, <2>10
<1>5. u \in Binades /\ IsUlp(u, product, 1)
  BY <1>4, UlpExists DEF t
<1>6. ASSUME m > u PROVE (m * Precision) % u = 0
  <2>1. PICK e \in 0 .. MaxExponent : u = Two[e]
    BY <1>5 DEF Binades
  <2>2. PICK p \in 0 .. MaxExponent : Precision = Two[p]
    BY JumpAssumption DEF Binades
  <2>3. e \in Nat /\ p \in Nat /\ u \in Nat \ {0}
    BY <2>1, <2>2, JumpTypes
  <2>4. Two[e] < Two[p]
    BY <1>1, <1>2, <1>6, <2>1, <2>2, <2>3
  <2>5. e <= p
    <3>1. SUFFICES ASSUME p <= e PROVE e <= p
      BY <2>3
    <3>2. Two[p] <= Two[e] /\ Two[p] \in Nat /\ Two[e] \in Nat
      BY <2>3, <3>1, TwoMonotone, TwoDef
    <3> QED
      BY <2>4, <3>2
  <2>6. p - e \in Nat /\ e + (p - e) = p
    BY <2>3, <2>5
  <2> DEFINE k == Two[p - e]
  <2>7. k \in Nat
    BY <2>6, TwoDef
  <2>8. Precision = u * k
    BY <2>1, <2>2, <2>3, <2>6, TwoPlus
  <2> HIDE DEF k, u
  <2>9. m * Precision = 0 + u * (m * k) /\ m * k \in Nat
    BY <1>2, <2>3, <2>7, <2>8
  <2>10. (0 + u * (m * k)) % u = 0 % u
    BY <2>3, <2>9, ModMultiple
  <2> QED
    BY <2>3, <2>9, <2>10
<1> QED
  BY <1>5, <1>6 DEF m

-----------------------------------------------------------------------------
(* Owners.                                                                 *)

\* A quotient is at least every whole number up to it.
LEMMA QuotientAtLeast ==
    ASSUME NEW n \in Nat, NEW d \in Nat \ {0}, NEW k \in Nat, k * d <= n
    PROVE  n \div d \in Nat /\ n \div d >= k
<1> DEFINE q == n \div d
           r == n % d
<1>1. q \in Nat /\ r \in 0 .. d - 1 /\ n = d * q + r
  BY SMT
<1>2. SUFFICES ASSUME q < k PROVE FALSE
  BY <1>1
<1>3. q + 1 <= k
  BY <1>1, <1>2
<1>4. (q + 1) * d <= k * d
  BY <1>1, <1>3, SMT
<1>5. d * q + d <= d * q + r
  BY <1>1, <1>4, SMT
<1> QED
  BY <1>1, <1>5, SMT

\* So is the whole number nearest to it.
LEMMA NearestAtLeast ==
    ASSUME NEW n \in Nat, NEW d \in Nat \ {0}, NEW k \in Nat, k * d <= n
    PROVE  Nearest(n, d) \in Nat /\ Nearest(n, d) >= k
<1>1. n \div d \in Nat /\ n \div d >= k
  BY QuotientAtLeast
<1>2. Nearest(n, d) = n \div d \/ Nearest(n, d) = n \div d + 1
  BY DEF Nearest
<1> QED
  BY <1>1, <1>2

\* A float in units of 1 / Precision is at least 1 where the value is.
LEMMA RoundedAtLeast1 ==
    ASSUME NEW n \in Nat, NEW d \in Nat \ {0},
           IsUlp(Ulp(n, d), n, d), n >= Precision * d
    PROVE  Rounded(n, d) \in Nat /\ Rounded(n, d) >= Ulp(n, d) * Precision
<1> DEFINE u == Ulp(n, d)
<1>1. u \in Nat \ {0} /\ Precision \in Nat \ {0}
  BY JumpTypes DEF IsUlp
<1>2. n >= u * Precision * d
  <2>1. CASE u = 1
    BY <1>1, <2>1
  <2>2. CASE n >= u * Precision * d
    BY <2>2
  <2> QED
    BY <2>1, <2>2 DEF IsUlp
<1>3. Precision * (u * d) <= n
  BY <1>1, <1>2, SMT
<1>4. u * d \in Nat \ {0}
  BY <1>1, SMT
<1>5. Nearest(n, u * d) \in Nat /\ Nearest(n, u * d) >= Precision
  BY <1>1, <1>3, <1>4, NearestAtLeast
<1>6. u * Nearest(n, u * d) \in Nat /\ u * Nearest(n, u * d) >= u * Precision
  BY <1>1, <1>5, SMT
<1> QED
  BY <1>6 DEF Rounded

\* Draws over what was drawn is at least 1.
LEMMA JumpProbAtLeast1 ==
    ASSUME NEW d \in 1 .. Draws
    PROVE  JumpProb(d) \in Nat /\ JumpProb(d) >= Precision
<1> DEFINE n == Draws * Precision
<1>1. Draws \in Nat \ {0} /\ Precision \in Nat \ {0} /\ d \in Nat \ {0}
  BY JumpTypes
<1>2. n \in Nat /\ n >= Precision * d
  BY <1>1, SMT
<1>3. IsUlp(Ulp(n, d), n, d)
  BY ReciprocalIsFloat
<1>4. Rounded(n, d) \in Nat /\ Rounded(n, d) >= Ulp(n, d) * Precision
  BY <1>1, <1>2, <1>3, RoundedAtLeast1
<1>5. Ulp(n, d) * Precision >= Precision
  BY <1>1, <1>3, SMT DEF IsUlp
<1>6. Ulp(n, d) * Precision \in Nat
  BY <1>1, <1>3, SMT DEF IsUlp
<1> QED
  BY <1>1, <1>4, <1>5, <1>6 DEF JumpProb

\* The walk goes forward.
LEMMA LeapsForward ==
    ASSUME NEW n \in Sizes, NEW b \in 0 .. n - 1, NEW d \in 1 .. Draws
    PROVE  Leap(b, d) \in Int /\ Leap(b, d) > b
<1> DEFINE m == b + 1
           product == m * JumpProb(d)
           u == Ulp(product, 1)
           rounded == Rounded(product, 1)
<1>1. /\ m \in Nat \ {0} /\ Precision \in Nat \ {0}
      /\ JumpProb(d) \in Nat /\ JumpProb(d) >= Precision
  BY JumpAssumption, JumpTypes, JumpProbAtLeast1
<1>2. product \in Nat /\ product >= m * Precision
  BY <1>1, SMT
<1>3. m * Precision >= Precision /\ m * Precision \in Nat
  BY <1>1, SMT
<1>4. /\ IsUlp(u, product, 1)
      /\ m > u => (m * Precision) % u = 0
  BY ProductIsFloat
<1>5. u \in Nat \ {0}
  BY <1>4 DEF IsUlp
<1>6. rounded \in Nat /\ rounded >= u * Precision
  <2>1. product >= Precision * 1
    BY <1>1, <1>2, <1>3
  <2> HIDE DEF product
  <2> QED
    BY <1>2, <1>4, <2>1, RoundedAtLeast1
<1>7. rounded >= m * Precision
  <2>1. CASE m <= u
    <3>1. m * Precision <= u * Precision
      BY <1>1, <1>5, <2>1, SMT
    <3>2. u * Precision \in Nat
      BY <1>1, <1>5, SMT
    <3> QED
      BY <1>3, <1>6, <3>1, <3>2
  <2>2. CASE m > u
    <3> DEFINE k == (m * Precision) \div u
    <3>1. (m * Precision) % u = 0
      BY <1>4, <2>2
    <3>2. k \in Nat /\ m * Precision = u * k
      BY <1>3, <1>5, <3>1, SMT
    <3>3. k * u <= product
      BY <1>2, <1>5, <3>2, SMT
    <3>4. Nearest(product, u) \in Nat /\ Nearest(product, u) >= k
      BY <1>2, <1>5, <3>2, <3>3, NearestAtLeast
    <3>5. u * Nearest(product, u) >= u * k
      BY <1>5, <3>2, <3>4, SMT
    <3>6. u * 1 = u
      BY <1>5
    <3>7. rounded = u * Nearest(product, u)
      BY <3>6 DEF Rounded
    <3> QED
      BY <3>2, <3>5, <3>7
  <2> QED
    BY <1>1, <1>5, <2>1, <2>2
<1>8. Leap(b, d) = rounded \div Precision
  BY DEF Leap
<1>9. rounded \div Precision \in Nat /\ rounded \div Precision >= m
  <2> HIDE DEF rounded
  <2> QED
    BY <1>1, <1>6, <1>7, QuotientAtLeast
<1> QED
  BY <1>1, <1>8, <1>9

-----------------------------------------------------------------------------
\* A draw is from 1 to Draws, and the generator stays within a word.
LEMMA DrawInRange ==
    ASSUME NEW key \in 0 .. Word - 1
    PROVE  Scramble(key) \in 0 .. Word - 1 /\ Draw(key) \in 1 .. Draws
<1>1. Draws \in Nat \ {0} /\ Low \in Nat \ {0} /\ Multiplier \in Nat
  BY JumpAssumption
<1>2. Word \in Nat \ {0}
  BY <1>1, SMT DEF Word
<1>3. key * Multiplier + 1 \in Nat
  BY <1>1, <1>2, SMT
<1>4. Scramble(key) \in 0 .. Word - 1
  BY <1>2, <1>3 DEF Scramble
<1> DEFINE q == key \div Low
           r == key % Low
<1>5. q \in Nat /\ r \in 0 .. Low - 1 /\ key = Low * q + r
  BY <1>1, <1>2, SMT
<1>6. q < Draws
  <2>1. SUFFICES ASSUME q >= Draws PROVE FALSE
    BY <1>1, <1>5
  <2>2. Low * q >= Low * Draws
    BY <1>1, <1>5, <2>1, SMT
  <2> QED
    BY <1>1, <1>2, <1>5, <2>2, SMT DEF Word
<1>7. Draw(key) = q + 1
  BY DEF Draw
<1> QED
  BY <1>1, <1>4, <1>5, <1>6, <1>7

\* One call: where it is and where it goes, in order, and short of its end.
Ordered(n, w) ==
    /\ w \in [key : 0 .. Word - 1, b : Int, j : Int]
    /\ -1 <= w.b /\ w.b < w.j
    /\ w.b = -1 => w.j = 0
    /\ 0 < n => w.b < n
    /\ n <= 0 => w.b = -1

\* Two calls, the second with no fewer nodes: one walk while the first runs, and
\* then the second where the first ended or past all its nodes.
Together(m, n) ==
    /\ Running(m) => walk[n] = walk[m]
    /\ ~Running(m) => walk[n] = walk[m] \/ walk[n].b >= m

WalkInv ==
    /\ walk \in [Sizes -> [key : 0 .. Word - 1, b : Int, j : Int]]
    /\ \A n \in Sizes : Ordered(n, walk[n])
    /\ \A m, n \in Sizes : 0 < m /\ m <= n => Together(m, n)

\* A turn of a running call keeps it in order, and takes it to where it was going.
LEMMA AdvancedOrdered ==
    ASSUME NEW n \in Sizes, WalkInv, Running(n)
    PROVE  /\ Ordered(n, Advanced(n, walk[n]))
           /\ Advanced(n, walk[n]).b = walk[n].j
<1> DEFINE w == walk[n]
           k == Scramble(w.key)
<1>1. /\ n \in Int /\ w \in [key : 0 .. Word - 1, b : Int, j : Int]
      /\ Ordered(n, w) /\ w.j < n
  BY JumpAssumption DEF WalkInv, Running
<1>2. w.j \in 0 .. n - 1
  BY <1>1 DEF Ordered
<1>3. k \in 0 .. Word - 1 /\ Draw(k) \in 1 .. Draws
  BY <1>1, DrawInRange
<1>4. Leap(w.j, Draw(k)) \in Int /\ Leap(w.j, Draw(k)) > w.j
  BY <1>2, <1>3, LeapsForward
<1>5. Advanced(n, w) = [key |-> k, b |-> w.j, j |-> Leap(w.j, Draw(k))]
  BY DEF Advanced
<1> QED
  BY <1>1, <1>2, <1>3, <1>4, <1>5 DEF Ordered

LEMMA WalkInvInit == WalkInit => WalkInv
<1>1. Sizes \subseteq Int
  BY JumpAssumption
<1> QED
  BY <1>1 DEF WalkInit, WalkInv, Ordered, Together, Running

LEMMA WalkInvStep == WalkInv /\ [WalkNext]_walk => WalkInv'
<1> SUFFICES ASSUME WalkInv, [WalkNext]_walk PROVE WalkInv'
  OBVIOUS
<1>1. CASE UNCHANGED walk
  BY <1>1 DEF WalkInv, Together, Running
<1>2. CASE WalkTurn
  <2> DEFINE next(n) == IF Running(n) THEN Advanced(n, walk[n]) ELSE walk[n]
  <2>1. walk' = [n \in Sizes |-> next(n)]
    BY <1>2 DEF WalkTurn
  <2>2. \A n \in Sizes : Ordered(n, next(n))
    BY AdvancedOrdered DEF WalkInv
  <2>3. WalkInv!2'
    BY <2>1, <2>2
  <2>4. walk' \in [Sizes -> [key : 0 .. Word - 1, b : Int, j : Int]]
    BY <2>1, <2>2 DEF Ordered
  <2>5. ASSUME NEW m \in Sizes, NEW n \in Sizes, 0 < m, m <= n
        PROVE  Together(m, n)'
    <3>1. /\ m \in Int /\ n \in Int
          /\ walk[m] \in [key : 0 .. Word - 1, b : Int, j : Int]
          /\ walk[n] \in [key : 0 .. Word - 1, b : Int, j : Int]
          /\ Ordered(n, walk[n]) /\ Together(m, n)
      BY <2>5, JumpAssumption DEF WalkInv
    <3>2. walk'[m] = next(m) /\ walk'[n] = next(n)
      BY <2>1
    <3>3. CASE Running(m)
      <4>1. walk[n] = walk[m] /\ Running(n)
        BY <2>5, <3>1, <3>3 DEF Together, Running
      <4>2. next(n) = next(m)
        BY <3>3, <4>1 DEF Advanced
      <4> QED
        BY <3>2, <4>2 DEF Together
    <3>4. CASE ~Running(m)
      <4>1. walk'[m] = walk[m] /\ ~Running(m)'
        BY <3>2, <3>4 DEF Running
      <4>2. CASE ~Running(n)
        BY <3>1, <3>2, <3>4, <4>1, <4>2 DEF Together
      <4>3. CASE Running(n)
        <5>1. walk'[n].b = walk[n].j
          BY <3>2, <4>3, AdvancedOrdered
        <5>2. walk[n].j >= m
          <6>1. CASE walk[n] = walk[m]
            BY <2>5, <3>1, <3>4, <6>1 DEF Running
          <6>2. CASE walk[n].b >= m
            BY <3>1, <6>2 DEF Ordered
          <6> QED
            BY <3>1, <3>4, <6>1, <6>2 DEF Together
        <5> QED
          BY <4>1, <5>1, <5>2 DEF Together
      <4> QED
        BY <4>2, <4>3
    <3> QED
      BY <3>3, <3>4
  <2> QED
    BY <2>3, <2>4, <2>5 DEF WalkInv
<1> QED
  BY <1>1, <1>2 DEF WalkNext

\* Nodes agree on owners: see MovesOnlyToNew (jump_hash.rs, jump_hash).
THEOREM JumpMovesOnlyToNew == WalkSpec => []MovesOnlyToNew
<1>1. WalkInv => MovesOnlyToNew
  <2> SUFFICES ASSUME WalkInv, NEW m \in Sizes, NEW n \in Sizes,
                      0 < m, m <= n, ~Running(m), ~Running(n)
               PROVE  /\ Owner(m) \in 0 .. m - 1
                      /\ Owner(n) = Owner(m) \/ Owner(n) >= m
    BY DEF MovesOnlyToNew
  <2>1. /\ m \in Int /\ n \in Int
        /\ walk[m] \in [key : 0 .. Word - 1, b : Int, j : Int]
        /\ Ordered(m, walk[m]) /\ Together(m, n)
    BY JumpAssumption DEF WalkInv
  <2>2. Owner(m) = walk[m].b /\ Owner(n) = walk[n].b
    BY <2>1 DEF Owner
  <2>3. Owner(m) \in 0 .. m - 1
    BY <2>1, <2>2 DEF Ordered, Running
  <2> QED
    BY <2>1, <2>2, <2>3 DEF Together
<1> QED
  BY <1>1, WalkInvInit, WalkInvStep, PTL DEF WalkSpec

\* Each call goes to the end (jump_hash.rs, the while loop): no turn of a running
\* call steps on the spot or back, and what it reaches is one of its nodes.
Forward ==
    \A n \in Sizes : Running(n) => walk'[n].b = walk[n].j /\ walk'[n].j > walk[n].j

THEOREM WalksGoForward == WalkSpec => [][Forward]_walk
<1>1. WalkInv /\ [WalkNext]_walk => [Forward]_walk
  <2> SUFFICES ASSUME WalkInv, WalkTurn, NEW n \in Sizes, Running(n)
               PROVE  walk'[n].b = walk[n].j /\ walk'[n].j > walk[n].j
    BY DEF WalkNext, Forward
  <2>1. walk'[n] = Advanced(n, walk[n])
    BY DEF WalkTurn
  <2>2. /\ Ordered(n, Advanced(n, walk[n]))
        /\ Advanced(n, walk[n]).b = walk[n].j
    BY AdvancedOrdered
  <2> QED
    BY <2>1, <2>2 DEF Ordered
<1> QED
  BY <1>1, WalkInvInit, WalkInvStep, PTL DEF WalkSpec

-----------------------------------------------------------------------------
(* Invalidation logs.                                                      *)

Logs == [Keys -> Entries \cup {None}]

\* Log l shows the latest of the invalidations K for each key.
Shows(l, K) ==
    \A k \in Keys :
        IF l[k] = None
        THEN \A e \in K : e.key # k
        ELSE /\ Event(k, l[k].clock, l[k].node) \in K
             /\ \A e \in K : e.key = k => ~Later(e.clock, l[k].clock)

\* Log l with clock c stands for the invalidations K.
StandsFor(l, c, K) ==
    /\ Shows(l, K)
    /\ \A e \in K : ~Later(e.clock, c)

\* Whoever has heard of the insertion has a clock as late.
Heard(c) == inserted # None /\ ~Later(inserted.clock, c)

LogInv ==
    /\ TypeOK
    /\ \A n \in Nodes : StandsFor(log[n], clock[n], known[n])
    /\ \A s \in sent : StandsFor(s.log, s.clock, s.known)
    /\ \A n \in heard : Heard(clock[n])
    /\ \A s \in sent : s.heard => Heard(s.clock)
    /\ \A e \in later : /\ inserted # None /\ e.key = inserted.key
                        /\ Later(e.clock, inserted.clock)
    /\ inserted # None => \A e \in inserted.seen : ~Later(e.clock, inserted.clock)

-----------------------------------------------------------------------------
(* Clocks.                                                                 *)

LEMMA LaterOrder ==
    ASSUME NEW a \in Clocks, NEW b \in Clocks, NEW c \in Clocks
    PROVE  /\ ~Later(a, a)
           /\ Later(a, b) => ~Later(b, a)
           /\ ~Later(a, b) /\ ~Later(b, c) => ~Later(a, c)
           /\ Later(a, b) /\ ~Later(c, b) => Later(a, c)
           /\ ~Later(b, a) /\ Later(b, c) => Later(a, c)
  BY DEF Clocks, Later

LEMMA TickStep ==
    ASSUME NEW c \in Clocks
    PROVE  Tick(c) \in Clocks /\ Later(Tick(c), c) /\ ~Later(c, Tick(c))
  BY DEF Clocks, Later, Tick

LEMMA MergedStep ==
    ASSUME NEW c \in Clocks, NEW d \in Clocks
    PROVE  /\ Merged(c, d) \in Clocks
           /\ ~Later(c, Merged(c, d)) /\ ~Later(d, Merged(c, d))
  BY DEF Clocks, Later, Tick, Merged

LEMMA EntryType ==
    ASSUME NEW e \in Entries
    PROVE  e # None /\ e.clock \in Clocks /\ e.node \in Nodes
  BY LogAssumption DEF Entries

-----------------------------------------------------------------------------
(* Logs.                                                                   *)

\* A log with a new invalidation, later than all before.
LEMMA InvalidateLog ==
    ASSUME NEW l \in Logs, NEW c \in Clocks, NEW K \in SUBSET Events,
           StandsFor(l, c, K), NEW k \in Keys, NEW n \in Nodes, NEW d \in Clocks,
           Later(d, c)
    PROVE  /\ [l EXCEPT ![k] = [clock |-> d, node |-> n]] \in Logs
           /\ K \cup {Event(k, d, n)} \in SUBSET Events
           /\ StandsFor([l EXCEPT ![k] = [clock |-> d, node |-> n]], d,
                        K \cup {Event(k, d, n)})
<1> DEFINE new == [clock |-> d, node |-> n]
           m == [l EXCEPT ![k] = new]
           ev == Event(k, d, n)
<1>1. new \in Entries /\ new # None /\ new.clock = d /\ new.node = n
  BY LogAssumption DEF Entries
<1>2. ev \in Events /\ ev.key = k /\ ev.clock = d
  BY DEF Event, Events
<1>3. m \in Logs /\ m[k] = new /\ \A j \in Keys \ {k} : m[j] = l[j]
  BY <1>1 DEF Logs
<1>4. \A e \in K : e.clock \in Clocks /\ ~Later(e.clock, d)
  BY LaterOrder DEF StandsFor, Events
<1>5. Shows(m, K \cup {ev})
  <2> SUFFICES ASSUME NEW j \in Keys
               PROVE  IF m[j] = None
                      THEN \A e \in K \cup {ev} : e.key # j
                      ELSE /\ Event(j, m[j].clock, m[j].node) \in K \cup {ev}
                           /\ \A e \in K \cup {ev} :
                                 e.key = j => ~Later(e.clock, m[j].clock)
    BY DEF Shows
  <2>1. CASE j = k
    <3>1. m[j] # None /\ Event(j, m[j].clock, m[j].node) = ev
      BY <1>1, <1>3, <2>1
    <3>2. \A e \in K \cup {ev} : ~Later(e.clock, d)
      BY <1>2, <1>4, LaterOrder
    <3> HIDE DEF m, ev, new
    <3> QED
      BY <1>1, <1>3, <2>1, <3>1, <3>2
  <2>2. CASE j # k
    <3> HIDE DEF m, ev, new
    <3> QED
      BY <1>2, <1>3, <2>2 DEF StandsFor, Shows
  <2> QED
    BY <2>1, <2>2
<1>6. \A e \in K \cup {ev} : ~Later(e.clock, d)
  BY <1>2, <1>4, LaterOrder
<1> QED
  BY <1>2, <1>3, <1>5, <1>6 DEF StandsFor

\* A merged log stands for what the two logs stood for together.
LEMMA MergeLogs ==
    ASSUME NEW l \in Logs, NEW c \in Clocks, NEW K \in SUBSET Events,
           StandsFor(l, c, K),
           NEW r \in Logs, NEW d \in Clocks, NEW R \in SUBSET Events,
           StandsFor(r, d, R)
    PROVE  /\ [k \in Keys |-> Winner(l[k], r[k])] \in Logs
           /\ StandsFor([k \in Keys |-> Winner(l[k], r[k])], Merged(c, d), K \cup R)
<1> DEFINE m == [k \in Keys |-> Winner(l[k], r[k])]
<1>1. m \in Logs /\ \A k \in Keys : m[k] = Winner(l[k], r[k])
  BY DEF Logs, Winner
<1> HIDE DEF m
<1>2. \A e \in K \cup R : e.clock \in Clocks
  BY DEF Events
<1>3. ASSUME NEW k \in Keys
      PROVE  IF m[k] = None
             THEN \A e \in K \cup R : e.key # k
             ELSE /\ Event(k, m[k].clock, m[k].node) \in K \cup R
                  /\ \A e \in K \cup R : e.key = k => ~Later(e.clock, m[k].clock)
  <2>1. CASE r[k] = None
    BY <1>1, <2>1 DEF StandsFor, Shows, Winner
  <2>2. CASE l[k] = None /\ r[k] # None
    BY <1>1, <2>2 DEF StandsFor, Shows, Winner
  <2>3. CASE l[k] # None /\ r[k] # None
    <3>1. l[k].clock \in Clocks /\ r[k].clock \in Clocks
      BY <2>3, EntryType DEF Logs
    <3>2. /\ Event(k, l[k].clock, l[k].node) \in K
          /\ Event(k, r[k].clock, r[k].node) \in R
          /\ \A e \in K : e.key = k => ~Later(e.clock, l[k].clock)
          /\ \A e \in R : e.key = k => ~Later(e.clock, r[k].clock)
      BY <2>3 DEF StandsFor, Shows
    <3>3. CASE Later(r[k].clock, l[k].clock)
      <4>1. m[k] = r[k]
        BY <1>1, <2>3, <3>3 DEF Winner
      <4>2. ~Later(l[k].clock, r[k].clock)
        BY <3>1, <3>3, LaterOrder
      <4>3. \A e \in K : e.key = k => ~Later(e.clock, r[k].clock)
        BY <1>2, <3>1, <3>2, <4>2, LaterOrder
      <4> QED
        BY <2>3, <3>2, <4>1, <4>3
    <3>4. CASE ~Later(r[k].clock, l[k].clock)
      <4>1. m[k] = l[k]
        BY <1>1, <2>3, <3>4 DEF Winner
      <4>2. \A e \in R : e.key = k => ~Later(e.clock, l[k].clock)
        BY <1>2, <3>1, <3>2, <3>4, LaterOrder
      <4> QED
        BY <2>3, <3>2, <4>1, <4>2
    <3> QED
      BY <3>3, <3>4
  <2> QED
    BY <2>1, <2>2, <2>3
<1>4. \A e \in K \cup R : ~Later(e.clock, Merged(c, d))
  BY <1>2, MergedStep, LaterOrder DEF StandsFor
<1> QED
  BY <1>1, <1>3, <1>4 DEF StandsFor, Shows, m

\* What a purge leaves of a log, and of what it stands for.
LEMMA PurgeLog ==
    ASSUME NEW l \in Logs, NEW c \in Clocks, NEW K \in SUBSET Events,
           StandsFor(l, c, K), NEW t \in Clocks
    PROVE  LET m == [k \in Keys |->
                       IF l[k] # None /\ Later(t, l[k].clock) THEN None ELSE l[k]]
           IN  m \in Logs /\ StandsFor(m, c, {e \in K : ~Later(t, e.clock)})
<1> DEFINE m == [k \in Keys |->
                   IF l[k] # None /\ Later(t, l[k].clock) THEN None ELSE l[k]]
           L == {e \in K : ~Later(t, e.clock)}
<1>1. /\ m \in Logs
      /\ \A k \in Keys : m[k] = IF l[k] # None /\ Later(t, l[k].clock) THEN None ELSE l[k]
  BY DEF Logs
<1> HIDE DEF m
<1>2. \A e \in K : e.clock \in Clocks
  BY DEF Events
<1>3. ASSUME NEW k \in Keys
      PROVE  IF m[k] = None
             THEN \A e \in L : e.key # k
             ELSE /\ Event(k, m[k].clock, m[k].node) \in L
                  /\ \A e \in L : e.key = k => ~Later(e.clock, m[k].clock)
  <2>1. CASE l[k] = None
    BY <1>1, <2>1 DEF StandsFor, Shows
  <2>2. CASE l[k] # None
    <3>1. l[k].clock \in Clocks
      BY <2>2, EntryType DEF Logs
    <3>2. /\ Event(k, l[k].clock, l[k].node) \in K
          /\ \A e \in K : e.key = k => ~Later(e.clock, l[k].clock)
      BY <2>2 DEF StandsFor, Shows
    <3>3. CASE Later(t, l[k].clock)
      <4>1. \A e \in K : e.key = k => Later(t, e.clock)
        BY <1>2, <3>1, <3>2, <3>3, LaterOrder
      <4> QED
        BY <1>1, <2>2, <3>3, <4>1
    <3>4. CASE ~Later(t, l[k].clock)
      <4>1. m[k] = l[k]
        BY <1>1, <3>4
      <4>2. Event(k, l[k].clock, l[k].node) \in L
        BY <3>2, <3>4 DEF Event
      <4> QED
        BY <2>2, <3>2, <4>1, <4>2
    <3> QED
      BY <3>3, <3>4
  <2> QED
    BY <2>1, <2>2
<1> QED
  BY <1>1, <1>3 DEF StandsFor, Shows, m

-----------------------------------------------------------------------------
(* The steps.                                                              *)

LEMMA LogInvInit == Init => LogInv
<1> SUFFICES ASSUME Init PROVE LogInv
  OBVIOUS
<1>1. Clock(0, 0) \in Clocks
  BY DEF Clock, Clocks
<1>2. TypeOK
  BY <1>1 DEF Init, TypeOK
<1>3. \A n \in Nodes : StandsFor(log[n], clock[n], known[n])
  BY DEF Init, StandsFor, Shows
<1> QED
  BY <1>2, <1>3 DEF Init, LogInv

\* The types of what LogInv speaks of.
LEMMA InvTypes ==
    ASSUME LogInv
    PROVE  /\ log \in [Nodes -> Logs] /\ clock \in [Nodes -> Clocks]
           /\ known \in [Nodes -> SUBSET Events]
           /\ \A n \in Nodes : /\ log[n] \in Logs /\ clock[n] \in Clocks
                                /\ known[n] \in SUBSET Events
           /\ \A s \in sent : /\ s.log \in Logs /\ s.clock \in Clocks
                               /\ s.known \in SUBSET Events /\ s.heard \in BOOLEAN
           /\ heard \subseteq Nodes
           /\ inserted # None =>
                /\ inserted.key \in Keys /\ inserted.clock \in Clocks
                /\ inserted.seen \in SUBSET Events
  BY DEF LogInv, TypeOK, Logs, Copies, Insertions

LEMMA InvalidateStep ==
    ASSUME LogInv, NEW n \in Nodes, NEW k \in Keys, Invalidate(n, k)
    PROVE  LogInv'
<1> DEFINE c == Tick(clock[n])
           ev == Event(k, c, n)
           new == [log[n] EXCEPT ![k] = [clock |-> c, node |-> n]]
<1>1. /\ clock[n] \in Clocks /\ c \in Clocks
      /\ Later(c, clock[n]) /\ ~Later(clock[n], c)
  BY InvTypes, TickStep
<1>2. ev \in Events /\ ev.key = k /\ ev.clock = c
  BY <1>1 DEF Event, Events
<1>3. /\ clock' = [clock EXCEPT ![n] = c]
      /\ log' = [log EXCEPT ![n] = new]
      /\ known' = [known EXCEPT ![n] = @ \cup {ev}]
      /\ later' = IF n \in heard /\ k = inserted.key THEN later \cup {ev} ELSE later
      /\ UNCHANGED <<sent, inserted, heard>>
  BY DEF Invalidate
<1>4. /\ new \in Logs /\ known[n] \cup {ev} \in SUBSET Events
      /\ StandsFor(new, c, known[n] \cup {ev})
  <2>1. /\ log[n] \in Logs /\ known[n] \in SUBSET Events
        /\ StandsFor(log[n], clock[n], known[n])
    BY InvTypes DEF LogInv
  <2>2. c \in Clocks /\ clock[n] \in Clocks /\ Later(c, clock[n])
    BY <1>1
  <2> HIDE DEF c
  <2> QED
    BY <2>1, <2>2, InvalidateLog
<1> HIDE DEF c, ev, new
<1>5. TypeOK'
  BY <1>1, <1>2, <1>3, <1>4, InvTypes DEF LogInv, TypeOK, Logs
<1>6. \A m \in Nodes : StandsFor(log'[m], clock'[m], known'[m])
  BY <1>3, <1>4, InvTypes DEF LogInv
<1>7. \A s \in sent' : StandsFor(s.log, s.clock, s.known)
  BY <1>3 DEF LogInv
<1>8. \A m \in heard' : Heard(clock[m])'
  BY <1>1, <1>3, InvTypes, LaterOrder DEF LogInv, Heard
<1>9. \A s \in sent' : s.heard => Heard(s.clock)'
  BY <1>3 DEF LogInv, Heard
<1>10. \A e \in later' : /\ inserted' # None /\ e.key = inserted'.key
                         /\ Later(e.clock, inserted'.clock)
  <2>1. CASE n \in heard /\ k = inserted.key
    <3>1. inserted # None /\ ~Later(inserted.clock, clock[n]) /\ inserted.clock \in Clocks
      BY <2>1, InvTypes DEF LogInv, Heard
    <3>2. Later(c, inserted.clock)
      BY <1>1, <3>1, LaterOrder
    <3> QED
      BY <1>2, <1>3, <2>1, <3>1, <3>2 DEF LogInv
  <2>2. CASE ~(n \in heard /\ k = inserted.key)
    BY <1>3, <2>2 DEF LogInv
  <2> QED
    BY <2>1, <2>2
<1>11. inserted' # None => \A e \in inserted'.seen : ~Later(e.clock, inserted'.clock)
  BY <1>3 DEF LogInv
<1> QED
  BY <1>5, <1>6, <1>7, <1>8, <1>9, <1>10, <1>11 DEF LogInv

LEMMA MergeStep ==
    ASSUME LogInv, NEW n \in Nodes, NEW s \in sent, Merge(n, s)
    PROVE  LogInv'
<1> DEFINE c == Merged(clock[n], s.clock)
           new == [k \in Keys |-> Winner(log[n][k], s.log[k])]
<1>1. /\ clock[n] \in Clocks /\ s.clock \in Clocks
      /\ c \in Clocks /\ ~Later(clock[n], c) /\ ~Later(s.clock, c)
  BY InvTypes, MergedStep
<1>2. /\ clock' = [clock EXCEPT ![n] = c]
      /\ log' = [log EXCEPT ![n] = new]
      /\ known' = [known EXCEPT ![n] = @ \cup s.known]
      /\ heard' = IF s.heard THEN heard \cup {n} ELSE heard
      /\ UNCHANGED <<sent, inserted, later>>
  BY DEF Merge
<1>3. /\ new \in Logs /\ known[n] \cup s.known \in SUBSET Events
      /\ StandsFor(new, c, known[n] \cup s.known)
  <2>1. /\ log[n] \in Logs /\ clock[n] \in Clocks /\ known[n] \in SUBSET Events
        /\ StandsFor(log[n], clock[n], known[n])
        /\ s.log \in Logs /\ s.clock \in Clocks /\ s.known \in SUBSET Events
        /\ StandsFor(s.log, s.clock, s.known)
    BY InvTypes DEF LogInv
  <2>2. new \in Logs /\ StandsFor(new, c, known[n] \cup s.known)
    BY <2>1, MergeLogs, Zenon
  <2> QED
    BY <2>1, <2>2
<1> HIDE DEF c, new
<1>4. TypeOK'
  BY <1>1, <1>2, <1>3, InvTypes DEF LogInv, TypeOK, Logs
<1>5. \A m \in Nodes : StandsFor(log'[m], clock'[m], known'[m])
  BY <1>2, <1>3, InvTypes DEF LogInv
<1>6. \A m \in heard' : Heard(clock[m])'
  <2> SUFFICES ASSUME NEW m \in heard' PROVE Heard(clock[m])'
    OBVIOUS
  <2>1. CASE m # n
    BY <1>2, <2>1, InvTypes DEF LogInv, Heard
  <2>2. CASE m = n
    <3>1. clock'[m] = c
      BY <1>2, <2>2, InvTypes
    <3>2. Heard(clock[n]) \/ Heard(s.clock)
      BY <1>2, <2>2 DEF LogInv
    <3>3. Heard(c)
      BY <1>1, <3>2, InvTypes, LaterOrder DEF Heard
    <3> QED
      BY <1>2, <3>1, <3>3 DEF Heard
  <2> QED
    BY <2>1, <2>2
<1> QED
  BY <1>2, <1>4, <1>5, <1>6 DEF LogInv, Heard

LEMMA PurgeStep ==
    ASSUME LogInv, NEW n \in Nodes, NEW t \in Clocks, Purge(n, t)
    PROVE  LogInv'
<1> DEFINE new == [k \in Keys |->
                    IF log[n][k] # None /\ Later(t, log[n][k].clock) THEN None ELSE log[n][k]]
           left == {e \in known[n] : ~Later(t, e.clock)}
<1>1. /\ log' = [log EXCEPT ![n] = new]
      /\ known' = [known EXCEPT ![n] = left]
      /\ UNCHANGED <<clock, sent, inserted, heard, later>>
  BY DEF Purge
<1>2. /\ new \in Logs /\ left \in SUBSET Events
      /\ StandsFor(new, clock[n], left)
  <2>1. /\ log[n] \in Logs /\ clock[n] \in Clocks /\ known[n] \in SUBSET Events
        /\ StandsFor(log[n], clock[n], known[n])
    BY InvTypes DEF LogInv
  <2>2. new \in Logs /\ StandsFor(new, clock[n], left)
    BY <2>1, PurgeLog, Zenon
  <2> QED
    BY <2>1, <2>2
<1> HIDE DEF new, left
<1>3. TypeOK'
  BY <1>1, <1>2, InvTypes DEF LogInv, TypeOK, Logs
<1>4. \A m \in Nodes : StandsFor(log'[m], clock'[m], known'[m])
  BY <1>1, <1>2, InvTypes DEF LogInv
<1> QED
  BY <1>1, <1>3, <1>4 DEF LogInv, Heard

LEMMA SendStep ==
    ASSUME LogInv, NEW n \in Nodes, Send(n)
    PROVE  LogInv'
<1> DEFINE s == [log |-> log[n], clock |-> clock[n], known |-> known[n], heard |-> n \in heard]
<1>1. sent' = sent \cup {s} /\ UNCHANGED <<log, clock, known, inserted, heard, later>>
  BY DEF Send
<1>2. /\ s \in Copies /\ s.log = log[n] /\ s.clock = clock[n] /\ s.known = known[n]
      /\ s.heard = (n \in heard)
  BY InvTypes DEF Copies, Logs
<1> HIDE DEF s
<1>3. TypeOK'
  BY <1>1, <1>2 DEF LogInv, TypeOK
<1>4. \A r \in sent' : StandsFor(r.log, r.clock, r.known)
  BY <1>1, <1>2 DEF LogInv
<1>5. \A r \in sent' : r.heard => Heard(r.clock)'
  BY <1>1, <1>2 DEF LogInv, Heard
<1> QED
  BY <1>1, <1>3, <1>4, <1>5 DEF LogInv, Heard

LEMMA InsertStep ==
    ASSUME LogInv, NEW n \in Nodes, NEW k \in Keys, Insert(n, k)
    PROVE  LogInv'
<1> DEFINE ins == [key |-> k, clock |-> clock[n], seen |-> known[n]]
<1>1. /\ inserted = None /\ inserted' = ins /\ heard' = {n}
      /\ UNCHANGED <<log, clock, sent, known, later>>
  BY DEF Insert
<1>2. /\ ins \in Insertions /\ ins # None /\ ins.clock = clock[n] /\ ins.seen = known[n]
  BY InvTypes, LogAssumption DEF Insertions
<1> HIDE DEF ins
<1>3. TypeOK'
  BY <1>1, <1>2 DEF LogInv, TypeOK
<1>4. \A m \in heard' : Heard(clock[m])'
  BY <1>1, <1>2, InvTypes, LaterOrder DEF Heard
<1>5. later = {} /\ \A s \in sent : ~s.heard
  BY <1>1, InvTypes DEF LogInv, Heard
<1>6. \A e \in inserted'.seen : ~Later(e.clock, inserted'.clock)
  BY <1>1, <1>2 DEF LogInv, StandsFor
<1> QED
  BY <1>1, <1>3, <1>4, <1>5, <1>6 DEF LogInv

-----------------------------------------------------------------------------
(* The theorems.                                                           *)

LEMMA StepKeeps ==
    ASSUME LogInv, [Next]_vars
    PROVE  LogInv'
<1>1. \A i \in 1 .. CounterBound : Clock(0, i) \in Clocks
  BY LogAssumption DEF Clock, Clocks
<1>2. CASE Next
  BY <1>1, <1>2, InvalidateStep, InsertStep, MergeStep, PurgeStep, SendStep DEF Next
<1>3. CASE UNCHANGED vars
  BY <1>3 DEF vars, LogInv, TypeOK, Heard
<1> QED
  BY <1>2, <1>3

\* Logs, copies and clocks are as good as each other in every reachable state.
THEOREM LogInvariance == Spec => []LogInv
<1>1. LogInv /\ [Next]_vars => LogInv'
  BY StepKeeps
<1> QED
  BY <1>1, LogInvInit, PTL DEF Spec

\* The logs and the copies keep their types (crdt.rs, InvalidationLog).
THEOREM LogTypeCorrect == Spec => []TypeOK
<1>1. LogInv => TypeOK
  BY DEF LogInv
<1> QED
  BY <1>1, LogInvariance, PTL

\* A log shows for each key the latest invalidation it stands for, whatever
\* copies came late, twice or out of order (crdt.rs, merge, purge_before).
THEOREM LogCorrect == Spec => []LogShowsLatest
<1>1. LogInv => LogShowsLatest
  <2> SUFFICES ASSUME LogInv, NEW n \in Nodes, NEW k \in Keys
               PROVE  LET events == {e \in known[n] : e.key = k}
                      IN  IF events = {} THEN log[n][k] = None
                          ELSE /\ log[n][k] # None
                               /\ Event(k, log[n][k].clock, log[n][k].node) \in events
                               /\ \A e \in events : ~Later(e.clock, log[n][k].clock)
    BY DEF LogShowsLatest
  <2>1. Shows(log[n], known[n])
    BY DEF LogInv, StandsFor
  <2>2. Event(k, log[n][k].clock, log[n][k].node).key = k
    BY DEF Event
  <2>3. CASE log[n][k] = None
    BY <2>1, <2>3 DEF Shows
  <2>4. CASE log[n][k] # None
    BY <2>1, <2>2, <2>4 DEF Shows
  <2> QED
    BY <2>3, <2>4
<1> QED
  BY <1>1, LogInvariance, PTL

\* What was invalidated after its insertion is stale (crdt.rs, is_stale).
THEOREM StaleCorrect == Spec => []StaleIfInvalidatedAfter
<1>1. LogInv => StaleIfInvalidatedAfter
  <2> SUFFICES ASSUME LogInv, NEW n \in Nodes, NEW e \in known[n] \cap later
               PROVE  IsStale(log[n][inserted.key], inserted.clock)
    BY DEF StaleIfInvalidatedAfter
  <2>1. /\ inserted # None /\ e.key = inserted.key /\ Later(e.clock, inserted.clock)
        /\ inserted.key \in Keys /\ inserted.clock \in Clocks /\ e.clock \in Clocks
    BY InvTypes DEF LogInv, Events
  <2> DEFINE entry == log[n][inserted.key]
  <2>2. entry # None /\ ~Later(e.clock, entry.clock)
    BY <2>1 DEF LogInv, StandsFor, Shows
  <2>3. entry.clock \in Clocks
    BY <2>1, <2>2, InvTypes, EntryType DEF Logs
  <2>4. Later(entry.clock, inserted.clock)
    BY <2>1, <2>2, <2>3, LaterOrder
  <2> QED
    BY <2>2, <2>4 DEF IsStale
<1> QED
  BY <1>1, LogInvariance, PTL

\* What was only invalidated before is not stale (crdt.rs, is_stale).
THEOREM FreshCorrect == Spec => []FreshIfInvalidatedBefore
<1>1. LogInv => FreshIfInvalidatedBefore
  <2> SUFFICES ASSUME LogInv, inserted # None, NEW n \in Nodes,
                      {e \in known[n] : e.key = inserted.key} \subseteq inserted.seen,
                      IsStale(log[n][inserted.key], inserted.clock)
               PROVE  FALSE
    BY DEF FreshIfInvalidatedBefore
  <2> DEFINE entry == log[n][inserted.key]
             ev == Event(inserted.key, entry.clock, entry.node)
  <2>1. /\ entry # None /\ Later(entry.clock, inserted.clock) /\ inserted.key \in Keys
    BY InvTypes DEF IsStale
  <2>2. ev \in known[n]
    BY <2>1 DEF LogInv, StandsFor, Shows
  <2>3. ev \in inserted.seen /\ ev.clock = entry.clock
    BY <2>2 DEF Event
  <2> QED
    BY <2>1, <2>3 DEF LogInv
<1> QED
  BY <1>1, LogInvariance, PTL

-----------------------------------------------------------------------------
(* Bits.                                                                   *)

LEMMA BitType ==
    ASSUME NEW a \in Nat, NEW n \in Nat
    PROVE  Bit(a, n) \in 0 .. 1
<1>1. Two[n] \in Nat \ {0}
  BY TwoDef
<1>2. a \div Two[n] \in Nat
  BY <1>1, Division
<1> QED
  BY <1>2 DEF Bit

\* The bits of a quotient by a power of two are the higher bits.
LEMMA BitOfQuotient ==
    ASSUME NEW a \in Nat, NEW s \in Nat, NEW n \in Nat
    PROVE  a \div Two[s] \in Nat /\ Bit(a \div Two[s], n) = Bit(a, s + n)
<1>1. Two[s] \in Nat \ {0} /\ Two[n] \in Nat \ {0}
  BY TwoDef
<1>2. a \div Two[s] \in Nat
  BY <1>1, Division
<1>3. (a \div Two[s]) \div Two[n] = a \div (Two[s] * Two[n])
  BY <1>1, DivTwice
<1>4. Two[s + n] = Two[s] * Two[n]
  BY TwoPlus
<1> QED
  BY <1>2, <1>3, <1>4 DEF Bit

LEMMA LowestBit ==
    ASSUME NEW a \in Nat
    PROVE  a \div 2 \in Nat /\ Bit(a, 0) = a % 2 /\ a = 2 * (a \div 2) + Bit(a, 0)
<1>1. a \div 1 = a
  OBVIOUS
<1>2. Bit(a, 0) = a % 2
  BY <1>1, TwoDef DEF Bit
<1> QED
  BY <1>2, Division

\* The other bits are those of the half.
LEMMA BitOfHalf ==
    ASSUME NEW a \in Nat, NEW n \in Nat
    PROVE  Bit(a, n + 1) = Bit(a \div 2, n)
<1>1. Two[1] = 2
  <2>1. 0 + 1 = 1 /\ 0 \in Nat
    OBVIOUS
  <2> QED
    BY <2>1, TwoDef
<1>2. Bit(a \div Two[1], n) = Bit(a, 1 + n)
  BY BitOfQuotient
<1> QED
  BY <1>1, <1>2

LEMMA HalfBelow ==
    ASSUME NEW m \in Nat, NEW a \in 0 .. Two[m + 1] - 1
    PROVE  a \in Nat /\ a \div 2 \in 0 .. Two[m] - 1
<1>1. Two[m] \in Nat \ {0} /\ Two[m + 1] = 2 * Two[m]
  BY TwoDef
<1> DEFINE t == Two[m]
<1>2. t \in Nat \ {0} /\ a \in 0 .. 2 * t - 1
  BY <1>1
<1> HIDE DEF t
<1>3. a \in Nat /\ a \div 2 \in 0 .. t - 1
  BY <1>2
<1> QED
  BY <1>3 DEF t

\* A number below a power of two has no bit from there on.
LEMMA NoHighBit ==
    ASSUME NEW m \in Nat, NEW a \in 0 .. Two[m] - 1, NEW n \in Nat, n >= m
    PROVE  Bit(a, n) = 0
<1>1. PICK k \in Nat : n = m + k
  BY n - m \in Nat
<1>2. Two[m] \in Nat \ {0} /\ Two[k] \in Nat \ {0}
  BY TwoDef
<1>3. a \in Nat /\ a \div Two[m] = 0
  <2> DEFINE t == Two[m]
  <2>1. t \in Nat \ {0} /\ a \in 0 .. t - 1
    BY <1>2
  <2> HIDE DEF t
  <2>2. a \in Nat /\ a \div t = 0
    BY <2>1
  <2> QED
    BY <2>2 DEF t
<1>4. Bit(0, k) = 0
  <2> DEFINE t == Two[k]
  <2>1. t \in Nat \ {0}
    BY <1>2
  <2> HIDE DEF t
  <2>2. (0 \div t) % 2 = 0
    BY <2>1
  <2> QED
    BY <2>2 DEF Bit, t
<1> QED
  BY <1>1, <1>3, <1>4, BitOfQuotient

\* Numbers with the same bits are the same ...
LEMMA BitsTell ==
    \A m \in Nat : \A a, b \in 0 .. Two[m] - 1 :
        (\A n \in 0 .. m - 1 : Bit(a, n) = Bit(b, n)) => a = b
<1> DEFINE Tell(m) == \A a, b \in 0 .. Two[m] - 1 :
                        (\A n \in 0 .. m - 1 : Bit(a, n) = Bit(b, n)) => a = b
           good == {m \in Nat : Tell(m)}
<1>1. 0 \in good
  BY TwoDef
<1>2. ASSUME NEW m \in Nat, Tell(m)
      PROVE  Tell(m + 1)
  <2>1. SUFFICES ASSUME NEW a \in 0 .. Two[m + 1] - 1, NEW b \in 0 .. Two[m + 1] - 1,
                        \A n \in 0 .. (m + 1) - 1 : Bit(a, n) = Bit(b, n)
                 PROVE  a = b
    OBVIOUS
  <2>2. /\ a \in Nat /\ a \div 2 \in 0 .. Two[m] - 1
        /\ b \in Nat /\ b \div 2 \in 0 .. Two[m] - 1
    BY HalfBelow
  <2>3. ASSUME NEW n \in 0 .. m - 1
        PROVE  Bit(a \div 2, n) = Bit(b \div 2, n)
    <3>1. n \in Nat /\ n + 1 \in 0 .. (m + 1) - 1
      OBVIOUS
    <3> QED
      BY <2>1, <2>2, <3>1, BitOfHalf
  <2>4. a \div 2 = b \div 2
    BY <1>2, <2>2, <2>3
  <2>5. 0 \in 0 .. (m + 1) - 1
    OBVIOUS
  <2>6. Bit(a, 0) = Bit(b, 0)
    BY <2>1, <2>5
  <2>7. a = 2 * (a \div 2) + Bit(a, 0) /\ b = 2 * (b \div 2) + Bit(b, 0)
    BY <2>2, LowestBit
  <2> QED
    BY <2>4, <2>6, <2>7
<1>3. \A m \in Nat : m \in good => m + 1 \in good
  <2> HIDE DEF Tell
  <2> QED
    BY <1>2
<1>4. \A m \in Nat : m \in good
  <2> HIDE DEF good
  <2> QED
    BY <1>1, <1>3, NatInduct
<1> QED
  BY <1>4

\* ... and there is one for any bits.
LEMMA BitsAsked ==
    \A m \in Nat : \A f \in [0 .. m - 1 -> 0 .. 1] :
        \E c \in 0 .. Two[m] - 1 : \A n \in 0 .. m - 1 : Bit(c, n) = f[n]
<1> DEFINE Exist(m) == \A f \in [0 .. m - 1 -> 0 .. 1] :
                         \E c \in 0 .. Two[m] - 1 : \A n \in 0 .. m - 1 : Bit(c, n) = f[n]
           good == {m \in Nat : Exist(m)}
<1>1. 0 \in good
  <2>1. 0 \in 0 .. Two[0] - 1
    BY TwoDef
  <2>2. 0 .. 0 - 1 = {}
    OBVIOUS
  <2> QED
    BY <2>1, <2>2
<1>2. ASSUME NEW m \in Nat, Exist(m)
      PROVE  Exist(m + 1)
  <2>1. SUFFICES ASSUME NEW f \in [0 .. (m + 1) - 1 -> 0 .. 1]
                 PROVE  \E c \in 0 .. Two[m + 1] - 1 :
                            \A n \in 0 .. (m + 1) - 1 : Bit(c, n) = f[n]
    OBVIOUS
  <2> DEFINE higher == [n \in 0 .. m - 1 |-> f[n + 1]]
  <2>2. higher \in [0 .. m - 1 -> 0 .. 1] /\ f[0] \in 0 .. 1
    OBVIOUS
  <2>3. \A n \in 0 .. m - 1 : higher[n] = f[n + 1]
    OBVIOUS
  <2> HIDE DEF higher
  <2>4. PICK h \in 0 .. Two[m] - 1 : \A n \in 0 .. m - 1 : Bit(h, n) = higher[n]
    BY <1>2, <2>2
  <2> DEFINE c == 2 * h + f[0]
  <2>5. c \in Nat /\ c % 2 = f[0] /\ c \div 2 = h
    BY <2>2, <2>4
  <2>6. c \in 0 .. Two[m + 1] - 1
    <3>1. Two[m] \in Nat /\ Two[m + 1] = 2 * Two[m]
      BY TwoDef
    <3> QED
      BY <2>2, <2>4, <3>1
  <2> HIDE DEF c
  <2>7. ASSUME NEW n \in 0 .. (m + 1) - 1
        PROVE  Bit(c, n) = f[n]
    <3>1. CASE n = 0
      BY <2>5, <3>1, LowestBit
    <3>2. CASE n # 0
      <4>1. n - 1 \in 0 .. m - 1 /\ n - 1 \in Nat /\ (n - 1) + 1 = n
        BY <3>2
      <4>2. Bit(c, (n - 1) + 1) = Bit(h, n - 1)
        BY <2>5, <4>1, BitOfHalf
      <4> QED
        BY <2>3, <2>4, <4>1, <4>2
    <3> QED
      BY <3>1, <3>2
  <2> QED
    BY <2>6, <2>7
<1>3. \A m \in Nat : m \in good => m + 1 \in good
  <2> HIDE DEF Exist
  <2> QED
    BY <1>2
<1>4. \A m \in Nat : m \in good
  <2> HIDE DEF good
  <2> QED
    BY <1>1, <1>3, NatInduct
<1> QED
  BY <1>4

-----------------------------------------------------------------------------
(* The arithmetic of words.                                                *)

LEMMA WordFacts ==
    /\ WordBits \in Nat \ {0} /\ Modulus = Two[WordBits] /\ Modulus \in Nat \ {0}
    /\ Words = 0 .. Modulus - 1
    /\ Two[ByteBits] \in Nat \ {0}
<1>1. ByteBits \in Nat \ {0} /\ WordBytes \in Nat \ {0}
  BY SeedAssumption
<1>2. ByteBits * WordBytes \in Nat \ {0}
  BY <1>1
<1> QED
  BY <1>1, <1>2, TwoDef DEF WordBits, Modulus, Words

LEMMA FactorFacts ==
    /\ Factor \in Nat /\ Odd(Factor)
    /\ FnvPrime \in Nat /\ Odd(FnvPrime)
    /\ \A mix \in {Stir, Final} :
         /\ \A i \in 1 .. 3 : mix.shifts[i] \in Nat \ {0}
         /\ \A i \in 1 .. 2 : mix.factors[i] \in Nat /\ Odd(mix.factors[i])
<1>1. \A n \in Words : n \in Nat
  BY WordFacts
<1>2. \A n \in {Factor, FnvPrime} : n \in Words /\ Odd(n)
  BY SeedAssumption, Zenon
<1>3. \A mix \in {Stir, Final} :
         /\ \A i \in 1 .. 3 : mix.shifts[i] \in Nat \ {0}
         /\ \A i \in 1 .. 2 : mix.factors[i] \in Words /\ Odd(mix.factors[i])
  BY SeedAssumption, Zenon
<1> QED
  BY <1>1, <1>2, <1>3, Zenon

\* A bitwise difference exists, and has the bits it should.
LEMMA XorBits ==
    ASSUME NEW a \in Words, NEW b \in Words
    PROVE  /\ Xor(a, b) \in Words
           /\ \A n \in 0 .. WordBits - 1 : Bit(Xor(a, b), n) = 1 <=> Bit(a, n) # Bit(b, n)
<1> DEFINE f == [n \in 0 .. WordBits - 1 |-> IF Bit(a, n) # Bit(b, n) THEN 1 ELSE 0]
           Right(c) == \A n \in 0 .. WordBits - 1 : Bit(c, n) = 1 <=> Bit(a, n) # Bit(b, n)
<1>1. f \in [0 .. WordBits - 1 -> 0 .. 1]
  OBVIOUS
<1>2. PICK c \in 0 .. Two[WordBits] - 1 : \A n \in 0 .. WordBits - 1 : Bit(c, n) = f[n]
  BY <1>1, WordFacts, BitsAsked
<1>3. c \in Words
  BY <1>2, WordFacts
<1>4. Right(c)
  BY <1>2
<1> HIDE DEF f
<1>5. (CHOOSE d \in Words : Right(d)) \in Words /\ Right(CHOOSE d \in Words : Right(d))
  <2> HIDE DEF Right
  <2> QED
    BY <1>3, <1>4
<1>6. Xor(a, b) = CHOOSE d \in Words : Right(d)
  <2> HIDE DEF Right
  <2>1. Xors[a] = [e \in Words |->
                     CHOOSE d \in Words :
                       \A n \in 0 .. WordBits - 1 : Bit(d, n) = 1 <=> Bit(a, n) # Bit(e, n)]
    BY DEF Xors
  <2>2. Xors[a][b] = CHOOSE d \in Words :
                       \A n \in 0 .. WordBits - 1 : Bit(d, n) = 1 <=> Bit(a, n) # Bit(b, n)
    BY <2>1
  <2> QED
    BY <2>2 DEF Xor, Right
<1> QED
  BY <1>5, <1>6

\* Which keeps apart what it takes the difference from.
LEMMA XorTells ==
    ASSUME NEW a \in Words, NEW b \in Words, NEW c \in Words
    PROVE  /\ Xor(a, c) = Xor(b, c) => a = b
           /\ Xor(c, a) = Xor(c, b) => a = b
<1>1. a \in Nat /\ b \in Nat /\ c \in Nat
  BY WordFacts
<1>2. ASSUME \A n \in 0 .. WordBits - 1 : (Bit(a, n) # Bit(c, n)) <=> (Bit(b, n) # Bit(c, n))
      PROVE  a = b
  <2>1. ASSUME NEW n \in 0 .. WordBits - 1
        PROVE  Bit(a, n) = Bit(b, n)
    <3>1. n \in Nat
      BY WordFacts
    <3>2. Bit(a, n) \in 0 .. 1 /\ Bit(b, n) \in 0 .. 1 /\ Bit(c, n) \in 0 .. 1
      BY <1>1, <3>1, BitType
    <3>3. (Bit(a, n) # Bit(c, n)) <=> (Bit(b, n) # Bit(c, n))
      BY <1>2
    <3> QED
      BY <3>2, <3>3
  <2>2. a \in 0 .. Two[WordBits] - 1 /\ b \in 0 .. Two[WordBits] - 1
    BY WordFacts
  <2> QED
    BY <2>1, <2>2, WordFacts, BitsTell
<1>3. ASSUME Xor(a, c) = Xor(b, c)
      PROVE  a = b
  BY <1>2, <1>3, XorBits
<1>4. ASSUME Xor(c, a) = Xor(c, b)
      PROVE  a = b
  BY <1>2, <1>4, XorBits
<1> QED
  BY <1>3, <1>4

\* A shift to the right, taken from a word, leaves what is not shifted in: the
\* highest bit in which two words differ meets no other difference.
LEMMA ShiftedTells ==
    ASSUME NEW a \in Words, NEW b \in Words, NEW s \in Nat \ {0}
    PROVE  /\ Shifted(a, s) \in Words
           /\ Shifted(a, s) = Shifted(b, s) => a = b
<1>1. a \in Nat /\ b \in Nat
  BY WordFacts
<1>2. ASSUME NEW c \in Words
      PROVE  c \div Two[s] \in Words
  <2>1. c \in Nat /\ Two[s] \in Nat \ {0}
    BY TwoDef, WordFacts
  <2> DEFINE t == Two[s]
  <2>2. c \in Nat /\ t \in Nat \ {0}
    BY <2>1
  <2> HIDE DEF t
  <2>3. c \div t \in Nat /\ c % t \in 0 .. t - 1 /\ c = t * (c \div t) + (c % t)
    BY <2>2, Division
  <2>4. t * (c \div t) >= c \div t
    BY <2>2, <2>3
  <2>5. c \div t \in Nat /\ c \div t <= c
    BY <2>2, <2>3, <2>4
  <2> QED
    BY <2>5, WordFacts DEF t
<1>3. a \div Two[s] \in Words /\ b \div Two[s] \in Words
  BY <1>2
<1>4. Shifted(a, s) \in Words
  BY <1>3, XorBits DEF Shifted
<1>5. ASSUME Shifted(a, s) = Shifted(b, s), a # b
      PROVE  FALSE
  <2> DEFINE apartAt == {n \in 0 .. WordBits - 1 : Bit(a, n) # Bit(b, n)}
  <2>1. apartAt # {}
    <3>1. a \in 0 .. Two[WordBits] - 1 /\ b \in 0 .. Two[WordBits] - 1
      BY WordFacts
    <3>2. apartAt = {} => \A n \in 0 .. WordBits - 1 : Bit(a, n) = Bit(b, n)
      OBVIOUS
    <3> HIDE DEF apartAt
    <3> QED
      BY <1>5, <3>1, <3>2, WordFacts, BitsTell
  <2>2. apartAt \in SUBSET Nat /\ IsFiniteSet(apartAt)
    <3>1. 0 .. WordBits - 1 \in SUBSET Nat /\ IsFiniteSet(0 .. WordBits - 1)
      <4>1. 0 \in Int /\ WordBits - 1 \in Int
        BY WordFacts
      <4> QED
        BY <4>1, FS_Interval
    <3> QED
      BY <3>1, FS_Subset
  <2>3. PICK n \in apartAt : \A k \in apartAt : k <= n
    <3> HIDE DEF apartAt
    <3>1. Max(apartAt) \in apartAt /\ \A k \in apartAt : k <= Max(apartAt)
      BY <2>1, <2>2, MaxOfNaturals
    <3> QED
      BY <3>1
  <2>4. n \in Nat /\ n \in 0 .. WordBits - 1 /\ Bit(a, n) # Bit(b, n) /\ s + n \in Nat
    BY <2>2
  <2>5. Bit(a, s + n) = Bit(b, s + n)
    <3>1. CASE s + n < WordBits
      <4>1. s + n \in 0 .. WordBits - 1 /\ ~(s + n <= n)
        BY <2>4, <3>1, WordFacts
      <4>2. s + n \notin apartAt
        BY <2>3, <4>1
      <4> QED
        BY <4>1, <4>2
    <3>2. CASE s + n >= WordBits
      <4>1. a \in 0 .. Two[WordBits] - 1 /\ b \in 0 .. Two[WordBits] - 1
        BY WordFacts
      <4> QED
        BY <2>4, <3>2, <4>1, WordFacts, NoHighBit
    <3> QED
      BY <2>4, <3>1, <3>2, WordFacts
  <2>6. /\ Bit(a \div Two[s], n) = Bit(a, s + n)
        /\ Bit(b \div Two[s], n) = Bit(b, s + n)
    <3>1. s \in Nat /\ n \in Nat
      BY <2>4
    <3> HIDE DEF apartAt
    <3>2. Bit(a \div Two[s], n) = Bit(a, s + n)
      BY <1>1, <3>1, BitOfQuotient
    <3>3. Bit(b \div Two[s], n) = Bit(b, s + n)
      BY <1>1, <3>1, BitOfQuotient
    <3> QED
      BY <3>2, <3>3
  <2> DEFINE high == Bit(a, s + n)
  <2>7. /\ Bit(Shifted(a, s), n) = 1 <=> Bit(a, n) # high
        /\ Bit(Shifted(b, s), n) = 1 <=> Bit(b, n) # high
    <3>1. /\ Bit(Xor(a, a \div Two[s]), n) = 1 <=> Bit(a, n) # Bit(a \div Two[s], n)
          /\ Bit(Xor(b, b \div Two[s]), n) = 1 <=> Bit(b, n) # Bit(b \div Two[s], n)
      BY <1>3, <2>4, XorBits
    <3> QED
      BY <2>5, <2>6, <3>1 DEF Shifted
  <2>8. Bit(a, n) \in 0 .. 1 /\ Bit(b, n) \in 0 .. 1 /\ high \in 0 .. 1
    BY <1>1, <2>4, BitType
  <2> HIDE DEF high
  <2> QED
    BY <1>5, <2>4, <2>7, <2>8
<1> QED
  BY <1>4, <1>5

\* What is divided by a power of two when it is multiplied by an odd number is
\* divided by it as it stands.
LEMMA OddCancels ==
    ASSUME NEW f \in Nat, Odd(f)
    PROVE  \A m \in Nat : \A d \in Nat :
               (\E k \in Nat : d * f = Two[m] * k) => \E j \in Nat : d = Two[m] * j
<1> DEFINE Cancel(m) == \A d \in Nat :
                          (\E k \in Nat : d * f = Two[m] * k) => \E j \in Nat : d = Two[m] * j
           good == {m \in Nat : Cancel(m)}
<1>1. 0 \in good
  <2>1. \A d \in Nat : d = Two[0] * d
    BY TwoDef
  <2> QED
    BY <2>1
<1>2. ASSUME NEW m \in Nat, Cancel(m)
      PROVE  Cancel(m + 1)
  <2>1. SUFFICES ASSUME NEW d \in Nat, NEW k \in Nat, d * f = Two[m + 1] * k
                 PROVE  \E j \in Nat : d = Two[m + 1] * j
    OBVIOUS
  <2>2. Two[m] \in Nat /\ Two[m + 1] = 2 * Two[m]
    BY TwoDef
  <2>3. PICK g \in Nat : f = 2 * g + 1
    <3>1. f \div 2 \in Nat /\ f = 2 * (f \div 2) + (f % 2)
      BY Division
    <3> QED
      BY <3>1 DEF Odd
  <2>4. PICK e \in Nat, r \in 0 .. 1 : d = 2 * e + r
    <3>1. d \div 2 \in Nat /\ d % 2 \in 0 .. 1 /\ d = 2 * (d \div 2) + (d % 2)
      BY Division
    <3> QED
      BY <3>1
  <2> DEFINE t == Two[m] * k
             p == d * g
             q == e * f
  <2>5. t \in Nat /\ p \in Nat /\ q \in Nat
    BY <2>2, <2>3, <2>4
  <2>6. d * f = 2 * t
    BY <2>1, <2>2
  <2>7. d * f = 2 * p + d
    BY <2>3
  <2> HIDE DEF t, p
  <2>8. r = 0 /\ d = 2 * e
    BY <2>4, <2>5, <2>6, <2>7
  <2>9. d * f = 2 * q
    BY <2>8
  <2> HIDE DEF q
  <2>10. q = t
    BY <2>5, <2>6, <2>9
  <2>11. PICK j \in Nat : e = Two[m] * j
    BY <1>2, <2>4, <2>10 DEF q, t
  <2>12. d = Two[m + 1] * j
    BY <2>2, <2>8, <2>11
  <2> QED
    BY <2>12
<1>3. \A m \in Nat : m \in good => m + 1 \in good
  <2> HIDE DEF Cancel
  <2> QED
    BY <1>2
<1>4. \A m \in Nat : m \in good
  <2> HIDE DEF good
  <2> QED
    BY <1>1, <1>3, NatInduct
<1> QED
  BY <1>4

\* Numbers with the same remainder are a multiple apart.
LEMMA MultiplesApart ==
    ASSUME NEW w \in Nat \ {0}, NEW p \in Nat, NEW q \in Nat, NEW r \in Nat,
           w * q + r >= w * p + r
    PROVE  \E k \in Nat : (w * q + r) - (w * p + r) = w * k
<1>1. ASSUME q < p
      PROVE  FALSE
  <2>1. p - (q + 1) \in Nat /\ p = (q + 1) + (p - (q + 1))
    BY <1>1
  <2>2. PICK k \in Nat : p = (q + 1) + k
    BY <2>1
  <2>3. w * p = w * q + w + w * k /\ w * k \in Nat
    BY <2>2
  <2> DEFINE x == w * q
             y == w * k
  <2>4. x \in Nat /\ y \in Nat /\ w * p = x + w + y
    BY <2>2, <2>3
  <2>5. x + r >= (x + w + y) + r
    BY <2>4
  <2> HIDE DEF x, y
  <2> QED
    BY <2>4, <2>5
<1>2. q - p \in Nat /\ w * (q - p) = w * q - w * p
  BY <1>1
<1>3. w * q \in Nat /\ w * p \in Nat
  OBVIOUS
<1>4. (w * q + r) - (w * p + r) = w * q - w * p
  BY <1>3
<1> QED
  BY <1>2, <1>4

\* So a multiplication by an odd number loses nothing.
LEMMA TimesTells ==
    ASSUME NEW a \in Words, NEW b \in Words, NEW f \in Nat
    PROVE  /\ Times(a, f) \in Words
           /\ Odd(f) /\ Times(a, f) = Times(b, f) => a = b
<1> DEFINE w == Modulus
<1>1. w \in Nat \ {0} /\ Words = 0 .. w - 1 /\ w = Two[WordBits]
  BY WordFacts
<1>2. \A c \in Words : Times(c, f) = (c * f) % w
  BY DEF Times
<1> HIDE DEF w
<1>3. a \in Nat /\ b \in Nat /\ a * f \in Nat /\ b * f \in Nat
  BY <1>1
<1>4. (a * f) % w \in 0 .. w - 1
  BY <1>1, <1>3, Division
<1>5. ASSUME NEW c \in Words, NEW d \in Words, c <= d,
             Odd(f), (c * f) % w = (d * f) % w
      PROVE  c = d
  <2>1. c \in Nat /\ d \in Nat /\ d - c \in Nat /\ d - c < w
    BY <1>1, <1>5
  <2>2. c * f \in Nat /\ d * f \in Nat /\ (d - c) * f = d * f - c * f
    BY <2>1
  <2> DEFINE u == c * f
             v == d * f
  <2>3. u \in Nat /\ v \in Nat /\ u % w = v % w
    BY <1>5, <2>2
  <2>4. u <= v
    BY <1>5, <2>1
  <2>5. (d - c) * f = v - u
    BY <2>2
  <2> HIDE DEF u, v
  <2>6. PICK q1 \in Nat, r1 \in 0 .. w - 1 : u = w * q1 + r1 /\ u % w = r1
    BY <1>1, <2>3, QuotRem
  <2>7. PICK q2 \in Nat, r2 \in 0 .. w - 1 : v = w * q2 + r2 /\ v % w = r2
    BY <1>1, <2>3, QuotRem
  <2>8. r1 = r2 /\ w * q2 + r1 >= w * q1 + r1
    BY <1>1, <2>3, <2>4, <2>6, <2>7
  <2>9. PICK x \in Nat : (w * q2 + r1) - (w * q1 + r1) = w * x
    <3>1. r1 \in Nat /\ q1 \in Nat /\ q2 \in Nat /\ w \in Nat \ {0}
      BY <1>1, <2>6, <2>7
    <3> QED
      BY <2>8, <3>1, MultiplesApart
  <2>10. \E k \in Nat : (d - c) * f = Two[WordBits] * k
    BY <1>1, <2>5, <2>6, <2>7, <2>8, <2>9
  <2>11. PICK j \in Nat : d - c = Two[WordBits] * j
    <3>1. \A m \in Nat : \A e \in Nat :
            (\E k \in Nat : e * f = Two[m] * k) => \E j \in Nat : e = Two[m] * j
      BY <1>5, OddCancels
    <3> DEFINE e == d - c
    <3>2. e \in Nat /\ WordBits \in Nat /\ \E k \in Nat : e * f = Two[WordBits] * k
      BY <2>1, <2>10, WordFacts
    <3> HIDE DEF e
    <3>3. \E j \in Nat : e = Two[WordBits] * j
      BY <3>1, <3>2
    <3> QED
      BY <3>3 DEF e
  <2>12. d - c = w * j
    BY <1>1, <2>11
  <2>13. j = 0
    <3>1. ASSUME j >= 1
          PROVE  FALSE
      <4>1. w * j >= w
        BY <1>1, <3>1
      <4> QED
        BY <1>1, <2>1, <2>12, <4>1
    <3> QED
      BY <3>1
  <2> QED
    BY <1>1, <2>1, <2>12, <2>13
<1>6. ASSUME Odd(f), Times(a, f) = Times(b, f)
      PROVE  a = b
  <2>1. (a * f) % w = (b * f) % w
    BY <1>2, <1>6
  <2>2. a <= b \/ b <= a
    BY <1>3
  <2> QED
    BY <1>5, <1>6, <2>1, <2>2
<1>7. Times(a, f) \in Words
  BY <1>1, <1>2, <1>4
<1> QED
  BY <1>6, <1>7

LEMMA MixedTells ==
    ASSUME NEW mix \in {Stir, Final}, NEW a \in Words, NEW b \in Words
    PROVE  /\ Mixed(a, mix) \in Words
           /\ Mixed(a, mix) = Mixed(b, mix) => a = b
<1>1. /\ \A i \in 1 .. 3 : mix.shifts[i] \in Nat \ {0}
      /\ \A i \in 1 .. 2 : mix.factors[i] \in Nat /\ Odd(mix.factors[i])
  BY FactorFacts, Zenon
<1>2. /\ mix.shifts[1] \in Nat \ {0} /\ mix.shifts[2] \in Nat \ {0}
      /\ mix.shifts[3] \in Nat \ {0}
      /\ mix.factors[1] \in Nat /\ Odd(mix.factors[1])
      /\ mix.factors[2] \in Nat /\ Odd(mix.factors[2])
  <2>1. 1 \in 1 .. 3 /\ 2 \in 1 .. 3 /\ 3 \in 1 .. 3 /\ 1 \in 1 .. 2 /\ 2 \in 1 .. 2
    OBVIOUS
  <2> QED
    BY <1>1, <2>1, Zenon
<1> DEFINE a1 == Shifted(a, mix.shifts[1])
           b1 == Shifted(b, mix.shifts[1])
           a2 == Times(a1, mix.factors[1])
           b2 == Times(b1, mix.factors[1])
           a3 == Shifted(a2, mix.shifts[2])
           b3 == Shifted(b2, mix.shifts[2])
           a4 == Times(a3, mix.factors[2])
           b4 == Times(b3, mix.factors[2])
<1>3. Mixed(a, mix) = Shifted(a4, mix.shifts[3]) /\ Mixed(b, mix) = Shifted(b4, mix.shifts[3])
  BY DEF Mixed
<1>4. a1 \in Words /\ b1 \in Words /\ (a1 = b1 => a = b)
  BY <1>2, ShiftedTells
<1> HIDE DEF a1, b1
<1>5. a2 \in Words /\ b2 \in Words /\ (a2 = b2 => a1 = b1)
  BY <1>2, <1>4, TimesTells
<1> HIDE DEF a2, b2
<1>6. a3 \in Words /\ b3 \in Words /\ (a3 = b3 => a2 = b2)
  BY <1>2, <1>5, ShiftedTells
<1> HIDE DEF a3, b3
<1>7. a4 \in Words /\ b4 \in Words /\ (a4 = b4 => a3 = b3)
  BY <1>2, <1>6, TimesTells
<1> HIDE DEF a4, b4
<1>8. /\ Shifted(a4, mix.shifts[3]) \in Words
      /\ Shifted(a4, mix.shifts[3]) = Shifted(b4, mix.shifts[3]) => a4 = b4
  BY <1>2, <1>7, ShiftedTells
<1> QED
  BY <1>3, <1>4, <1>5, <1>6, <1>7, <1>8

\* A quotient and a remainder are determined by what they are of.
LEMMA QuotientTells ==
    ASSUME NEW t \in Nat \ {0}, NEW m \in Nat, NEW n \in Nat,
           NEW q \in 0 .. t - 1, NEW p \in 0 .. t - 1, t * m + q = t * n + p
    PROVE  m = n /\ q = p
<1>1. q = p
  BY ModUnique
<1>2. t * m = t * n
  <2>1. t * m \in Nat /\ t * n \in Nat
    OBVIOUS
  <2> QED
    BY <1>1, <2>1
<1> QED
  BY <1>1, <1>2

\* A rotation swaps the high and the low bits ...
LEMMA RotatedParts ==
    ASSUME NEW h \in Nat \ {0}, NEW t \in Nat \ {0}, NEW a \in 0 .. h * t - 1
    PROVE  \E m \in 0 .. h - 1, q \in 0 .. t - 1 :
               a = h * q + m /\ ((a * t) % (h * t)) + (a \div h) = t * m + q
<1>1. h * t \in Nat \ {0} /\ a \in Nat
  OBVIOUS
<1> DEFINE q == a \div h
           m == a % h
<1>2. q \in Nat /\ m \in 0 .. h - 1 /\ a = h * q + m
  BY <1>1, Division
<1>3. q < t
  <2> HIDE DEF q, m
  <2>1. ASSUME q >= t
        PROVE  FALSE
    <3>1. h * q >= h * t
      <4>1. q - t \in Nat /\ h * (q - t) = h * q - h * t /\ h * (q - t) >= 0
        BY <1>2, <2>1
      <4>2. h * q \in Nat /\ h * t \in Nat
        BY <1>2
      <4> QED
        BY <4>1, <4>2
    <3>2. h * q \in Nat /\ h * t \in Nat
      BY <1>2
    <3> QED
      BY <1>1, <1>2, <3>1, <3>2
  <2> QED
    BY <1>2, <2>1
<1> HIDE DEF m
<1>4. (a * t) % (h * t) = t * m
  <2> HIDE DEF q
  <2> DEFINE w == h * t
             r == t * m
  <2>1. r \in 0 .. w - 1
    <3>1. h - 1 - m \in Nat /\ t * (h - 1 - m) \in Nat
      BY <1>2
    <3>2. t * (h - 1 - m) = h * t - t - t * m
      BY <1>2
    <3>3. t * m \in Nat /\ h * t \in Nat
      BY <1>2
    <3> QED
      BY <3>1, <3>2, <3>3
  <2>2. a * t = w * q + r
    BY <1>2
  <2> HIDE DEF r
  <2>3. w \in Nat \ {0}
    BY <1>1
  <2> HIDE DEF w
  <2>4. (w * q + r) % w = r
    BY <1>2, <2>1, <2>3, ModUnique
  <2> QED
    BY <2>2, <2>4 DEF w, r
<1>5. q \in 0 .. t - 1
  BY <1>2, <1>3
<1> QED
  BY <1>2, <1>4, <1>5

\* ... and loses none.
LEMMA RotatedTells ==
    ASSUME NEW a \in Words, NEW b \in Words
    PROVE  /\ RotatedLeft(a) \in Words
           /\ RotatedLeft(a) = RotatedLeft(b) => a = b
<1> DEFINE h == Two[WordBits - Rotation]
           t == Two[Rotation]
<1>1. /\ Rotation \in Nat /\ WordBits - Rotation \in Nat
      /\ (WordBits - Rotation) + Rotation = WordBits
  BY SeedAssumption, WordFacts
<1>2. h \in Nat \ {0} /\ t \in Nat \ {0} /\ h * t = Modulus
  BY <1>1, TwoDef, TwoPlus, WordFacts
<1>3. \A c \in Words : RotatedLeft(c) = ((c * t) % (h * t)) + (c \div h)
  BY <1>2 DEF RotatedLeft, Times
<1>4. Words = 0 .. h * t - 1
  BY <1>2, WordFacts
<1> HIDE DEF h, t
<1>5. PICK m1 \in 0 .. h - 1, q1 \in 0 .. t - 1 :
        a = h * q1 + m1 /\ ((a * t) % (h * t)) + (a \div h) = t * m1 + q1
  BY <1>2, <1>4, RotatedParts
<1>6. PICK m2 \in 0 .. h - 1, q2 \in 0 .. t - 1 :
        b = h * q2 + m2 /\ ((b * t) % (h * t)) + (b \div h) = t * m2 + q2
  BY <1>2, <1>4, RotatedParts
<1>7. RotatedLeft(a) = t * m1 + q1 /\ RotatedLeft(b) = t * m2 + q2
  BY <1>3, <1>5, <1>6
<1>8. t * m1 + q1 \in 0 .. h * t - 1
  <2>1. h - 1 - m1 \in Nat /\ t * (h - 1 - m1) \in Nat
    BY <1>2, <1>5
  <2>2. t * (h - 1 - m1) = h * t - t - t * m1
    BY <1>2, <1>5
  <2>3. t * m1 \in Nat /\ h * t \in Nat
    BY <1>2, <1>5
  <2> QED
    BY <1>2, <1>5, <2>1, <2>2, <2>3
<1>9. ASSUME t * m1 + q1 = t * m2 + q2
      PROVE  a = b
  <2>1. m1 \in Nat /\ m2 \in Nat
    BY <1>2, <1>5, <1>6
  <2>2. m1 = m2 /\ q1 = q2
    BY <1>2, <1>9, <2>1, QuotientTells
  <2> QED
    BY <1>5, <1>6, <2>2
<1> QED
  BY <1>4, <1>7, <1>8, <1>9

\* What a hasher absorbs can be told from its state, and its state from what it
\* becomes.
LEMMA AbsorbTells ==
    ASSUME NEW s \in Words, NEW t \in Words, NEW v \in Words, NEW w \in Words
    PROVE  /\ Absorb(s, v) \in Words
           /\ Absorb(s, v) = Absorb(t, v) => s = t
           /\ Absorb(s, v) = Absorb(s, w) => v = w
<1>1. Factor \in Nat /\ Odd(Factor)
  BY FactorFacts
<1>2. ASSUME NEW a \in Words, NEW b \in Words
      PROVE  /\ RotatedLeft(Times(a, Factor)) \in Words
             /\ RotatedLeft(Times(a, Factor)) = RotatedLeft(Times(b, Factor)) => a = b
  <2>1. /\ Times(a, Factor) \in Words /\ Times(b, Factor) \in Words
        /\ Times(a, Factor) = Times(b, Factor) => a = b
    BY <1>1, TimesTells
  <2> QED
    BY <2>1, RotatedTells
<1>3. Xor(s, v) \in Words /\ Xor(t, v) \in Words /\ Xor(s, w) \in Words
  BY XorBits
<1>4. Xor(s, v) = Xor(t, v) => s = t
  BY XorTells
<1>5. Xor(s, v) = Xor(s, w) => v = w
  BY XorTells
<1> QED
  BY <1>2, <1>3, <1>4, <1>5 DEF Absorb

LEMMA FnvTells ==
    ASSUME NEW s \in Words, NEW t \in Words, NEW v \in Words, NEW w \in Words
    PROVE  /\ FnvByte(s, v) \in Words
           /\ FnvByte(s, v) = FnvByte(t, v) => s = t
           /\ FnvByte(s, v) = FnvByte(s, w) => v = w
<1>1. FnvPrime \in Nat /\ Odd(FnvPrime)
  BY FactorFacts
<1>2. Xor(s, v) \in Words /\ Xor(t, v) \in Words /\ Xor(s, w) \in Words
  BY XorBits
<1>3. Xor(s, v) = Xor(t, v) => s = t
  BY XorTells
<1>4. Xor(s, v) = Xor(s, w) => v = w
  BY XorTells
<1> QED
  BY <1>1, <1>2, <1>3, <1>4, TimesTells DEF FnvByte

-----------------------------------------------------------------------------
(* Folds over sequences: the community module's fold takes the elements of *)
(* the domain from the highest down, by a recursion over its subsets.      *)

LEMMA MaxOfSegment ==
    ASSUME NEW n \in Nat, NEW T \in SUBSET (1 .. n), T # {}
    PROVE  Max(T) \in T /\ \A k \in T : k <= Max(T)
<1>1. IsFiniteSet(1 .. n) /\ 1 .. n \in SUBSET Nat
  BY FS_Interval
<1>2. IsFiniteSet(T) /\ T \in SUBSET Nat
  BY <1>1, FS_Subset
<1> QED
  BY <1>2, MaxOfNaturals

LEMMA SegmentStep ==
    ASSUME NEW n \in Nat
    PROVE  /\ 1 .. n + 1 # {} /\ Max(1 .. n + 1) = n + 1
           /\ (1 .. n + 1) \ {n + 1} = 1 .. n
<1>1. n + 1 \in 1 .. n + 1 /\ n + 1 \in Nat
  OBVIOUS
<1>2. Max(1 .. n + 1) \in 1 .. n + 1 /\ \A k \in 1 .. n + 1 : k <= Max(1 .. n + 1)
  BY <1>1, MaxOfSegment
<1>3. Max(1 .. n + 1) = n + 1
  BY <1>1, <1>2
<1>4. \A k \in 1 .. n + 1 : k # n + 1 <=> k \in 1 .. n
  OBVIOUS
<1>5. 1 .. n \subseteq 1 .. n + 1
  OBVIOUS
<1> QED
  BY <1>1, <1>3, <1>4, <1>5

\* What solves it, as far as values of V come up.
Solves(g, V, s, n, step) ==
    /\ g[{}] = s
    /\ \A T \in SUBSET (1 .. n) :
         T # {} /\ g[T \ {Max(T)}] \in V => g[T] = step[Max(T)][g[T \ {Max(T)}]]

\* There is a solution, whatever the steps are.
LEMMA FoldExists ==
    ASSUME NEW V, NEW s \in V
    PROVE  \A n \in Nat : \A step \in [1 .. n -> [V -> V]] :
             \E g \in [SUBSET (1 .. n) -> V] : Solves(g, V, s, n, step)
<1> DEFINE Right(g, n, step) ==
             /\ g[{}] = s
             /\ \A T \in SUBSET (1 .. n) : T # {} => g[T] = step[Max(T)][g[T \ {Max(T)}]]
           Exist(n) == \A step \in [1 .. n -> [V -> V]] :
                         \E g \in [SUBSET (1 .. n) -> V] : Right(g, n, step)
           good == {n \in Nat : Exist(n)}
<1>1. 0 \in good
  <2>1. 1 .. 0 = {} /\ SUBSET {} = {{}}
    OBVIOUS
  <2>2. ASSUME NEW step \in [1 .. 0 -> [V -> V]]
        PROVE  \E g \in [SUBSET (1 .. 0) -> V] : Right(g, 0, step)
    <3> DEFINE g == [T \in SUBSET (1 .. 0) |-> s]
    <3>1. g \in [SUBSET (1 .. 0) -> V] /\ Right(g, 0, step)
      BY <2>1
    <3> QED
      BY <3>1
  <2> QED
    BY <2>2
<1>2. ASSUME NEW n \in Nat, Exist(n)
      PROVE  Exist(n + 1)
  <2>1. SUFFICES ASSUME NEW step \in [1 .. n + 1 -> [V -> V]]
                 PROVE  \E g \in [SUBSET (1 .. n + 1) -> V] : Right(g, n + 1, step)
    OBVIOUS
  <2> DEFINE low == [k \in 1 .. n |-> step[k]]
  <2>2. low \in [1 .. n -> [V -> V]] /\ \A k \in 1 .. n : low[k] = step[k]
    OBVIOUS
  <2> HIDE DEF low
  <2>3. PICK g \in [SUBSET (1 .. n) -> V] : Right(g, n, low)
    <3> HIDE DEF Right
    <3> QED
      BY <1>2, <2>2
  <2> DEFINE more == [T \in SUBSET (1 .. n + 1) |->
                        IF n + 1 \in T THEN step[n + 1][g[T \ {n + 1}]] ELSE g[T]]
  <2>4. \A T \in SUBSET (1 .. n + 1) : T \ {n + 1} \in SUBSET (1 .. n)
    OBVIOUS
  <2>5. \A T \in SUBSET (1 .. n + 1) : n + 1 \notin T => T \in SUBSET (1 .. n)
    OBVIOUS
  <2>6. n + 1 \in 1 .. n + 1 /\ step[n + 1] \in [V -> V]
    OBVIOUS
  <2>7. \A T \in SUBSET (1 .. n) : more[T] = g[T]
    <3>1. \A T \in SUBSET (1 .. n) : n + 1 \notin T /\ T \in SUBSET (1 .. n + 1)
      OBVIOUS
    <3> QED
      BY <3>1
  <2>8. more \in [SUBSET (1 .. n + 1) -> V]
    BY <2>3, <2>4, <2>5, <2>6
  <2>9. \A T \in SUBSET (1 .. n + 1) : n + 1 \in T => more[T] = step[n + 1][more[T \ {n + 1}]]
    <3>1. \A T \in SUBSET (1 .. n + 1) : n + 1 \in T => more[T] = step[n + 1][g[T \ {n + 1}]]
      OBVIOUS
    <3> HIDE DEF more
    <3> QED
      BY <2>4, <2>7, <3>1
  <2> HIDE DEF more
  <2>10. more[{}] = s
    BY <2>3, <2>7
  <2>11. ASSUME NEW T \in SUBSET (1 .. n + 1), T # {}
         PROVE  more[T] = step[Max(T)][more[T \ {Max(T)}]]
    <3>1. Max(T) \in T /\ \A k \in T : k <= Max(T)
      BY <2>11, n + 1 \in Nat, MaxOfSegment
    <3>2. CASE n + 1 \in T
      <4>1. Max(T) \in 1 .. n + 1 /\ n + 1 <= Max(T)
        BY <3>1, <3>2
      <4>2. Max(T) = n + 1
        BY <4>1
      <4> QED
        BY <2>9, <3>2, <4>2
    <3>3. CASE n + 1 \notin T
      <4>1. T \in SUBSET (1 .. n) /\ T \ {Max(T)} \in SUBSET (1 .. n) /\ Max(T) \in 1 .. n
        BY <2>5, <3>1, <3>3
      <4>2. g[T] = low[Max(T)][g[T \ {Max(T)}]]
        BY <2>3, <2>11, <4>1
      <4> QED
        BY <2>2, <2>7, <4>1, <4>2
    <3> QED
      BY <3>2, <3>3
  <2>12. Right(more, n + 1, step)
    BY <2>10, <2>11
  <2> HIDE DEF Right
  <2> QED
    BY <2>8, <2>12
<1>3. \A n \in Nat : n \in good => n + 1 \in good
  <2> HIDE DEF Exist
  <2> QED
    BY <1>2
<1>4. \A n \in Nat : n \in good
  <2> HIDE DEF good
  <2> QED
    BY <1>1, <1>3, NatInduct
<1>5. ASSUME NEW n \in Nat, NEW step \in [1 .. n -> [V -> V]],
             NEW g \in [SUBSET (1 .. n) -> V], Right(g, n, step)
      PROVE  Solves(g, V, s, n, step)
  BY <1>5 DEF Solves
<1>6. \A n \in Nat : Exist(n)
  <2> HIDE DEF Exist
  <2> QED
    BY <1>4
<1> HIDE DEF Right
<1> QED
  BY <1>5, <1>6

\* Whatever solves it goes through the prefixes, a step each.
Runs(V, s, n, step, P) ==
    /\ P \in [0 .. n -> V]
    /\ P[0] = s
    /\ \A k \in 1 .. n : P[k] = step[k][P[k - 1]]

LEMMA FoldRuns ==
    ASSUME NEW V, NEW s \in V, NEW n \in Nat, NEW step \in [1 .. n -> [V -> V]],
           NEW iter, Solves(iter, V, s, n, step)
    PROVE  \E P : Runs(V, s, n, step, P) /\ iter[1 .. n] = P[n]
<1> DEFINE P == [k \in 0 .. n |-> iter[1 .. k]]
           good == {k \in Nat : k <= n => iter[1 .. k] \in V}
<1>1. iter[1 .. 0] = s
  <2>1. 1 .. 0 = {}
    OBVIOUS
  <2> QED
    BY <2>1 DEF Solves
<1>2. ASSUME NEW k \in Nat, k + 1 <= n, iter[1 .. k] \in V
      PROVE  /\ iter[1 .. k + 1] = step[k + 1][iter[1 .. k]]
             /\ iter[1 .. k + 1] \in V
  <2>1. 1 .. k + 1 \in SUBSET (1 .. n) /\ k + 1 \in 1 .. n
    BY <1>2
  <2>2. /\ 1 .. k + 1 # {} /\ Max(1 .. k + 1) = k + 1
        /\ (1 .. k + 1) \ {k + 1} = 1 .. k
    BY SegmentStep
  <2>3. iter[1 .. k + 1] = step[k + 1][iter[1 .. k]]
    BY <1>2, <2>1, <2>2 DEF Solves
  <2>4. step[k + 1] \in [V -> V]
    BY <2>1
  <2> QED
    BY <1>2, <2>3, <2>4
<1>3. 0 \in good
  BY <1>1
<1>4. ASSUME NEW k \in Nat, k \in good
      PROVE  k + 1 \in good
  BY <1>2, <1>4
<1>5. \A k \in Nat : k \in good
  <2> HIDE DEF good
  <2> QED
    BY <1>3, <1>4, NatInduct
<1>6. \A k \in 0 .. n : iter[1 .. k] \in V
  BY <1>5
<1>7. ASSUME NEW k \in 1 .. n
      PROVE  P[k] = step[k][P[k - 1]]
  <2>1. k - 1 \in Nat /\ (k - 1) + 1 = k /\ k <= n /\ k - 1 \in 0 .. n /\ k \in 0 .. n
    OBVIOUS
  <2>2. iter[1 .. k - 1] \in V
    BY <1>6, <2>1
  <2>3. iter[1 .. (k - 1) + 1] = step[(k - 1) + 1][iter[1 .. k - 1]]
    BY <1>2, <2>1, <2>2
  <2> QED
    BY <2>1, <2>3
<1>8. P \in [0 .. n -> V] /\ P[0] = s /\ P[n] = iter[1 .. n]
  BY <1>1, <1>6
<1>9. Runs(V, s, n, step, P)
  BY <1>7, <1>8 DEF Runs
<1> QED
  BY <1>8, <1>9

\* What a hasher absorbs, word by word.
LEMMA AbsorbRuns ==
    ASSUME NEW s \in Words, NEW v \in Seq(Words)
    PROVE  \E P : /\ Runs(Words, s, Len(v),
                          [k \in 1 .. Len(v) |-> [a \in Words |-> Absorb(a, v[k])]], P)
                  /\ FoldLeft(Absorb, s, v) = P[Len(v)]
<1> DEFINE n == Len(v)
           step == [k \in 1 .. n |-> [a \in Words |-> Absorb(a, v[k])]]
           turn(g) == [T \in SUBSET (1 .. n) |->
                         IF T = {} THEN s ELSE Absorb(g[T \ {Max(T)}], v[Max(T)])]
           iter == CHOOSE g : g = turn(g)
<1>1. n \in Nat /\ DOMAIN v = 1 .. n /\ \A k \in 1 .. n : v[k] \in Words
  OBVIOUS
<1>2. FoldLeft(Absorb, s, v) = iter[1 .. n]
  BY <1>1 DEF FoldLeft, MapThenFoldSet
<1>3. step \in [1 .. n -> [Words -> Words]]
  BY <1>1, AbsorbTells
<1>4. \A k \in 1 .. n, a \in Words : step[k][a] = Absorb(a, v[k])
  OBVIOUS
<1> HIDE DEF n, step
<1>5. PICK g \in [SUBSET (1 .. n) -> Words] : Solves(g, Words, s, n, step)
  BY <1>1, <1>3, FoldExists
<1>6. ASSUME NEW T \in SUBSET (1 .. n)
      PROVE  g[T] = IF T = {} THEN s ELSE Absorb(g[T \ {Max(T)}], v[Max(T)])
  <2>1. CASE T # {}
    <3>1. Max(T) \in 1 .. n /\ T \ {Max(T)} \in SUBSET (1 .. n)
      BY <1>1, <2>1, MaxOfSegment
    <3>2. g[T \ {Max(T)}] \in Words
      BY <3>1
    <3> QED
      BY <1>4, <1>5, <2>1, <3>1, <3>2 DEF Solves
  <2> QED
    BY <1>5, <2>1 DEF Solves
<1>7. g = turn(g)
  BY <1>6
<1>8. iter = turn(iter)
  BY <1>7
<1> HIDE DEF iter
<1>9. iter[{}] = s
  BY <1>8
<1>10. ASSUME NEW T \in SUBSET (1 .. n), T # {}, iter[T \ {Max(T)}] \in Words
       PROVE  iter[T] = step[Max(T)][iter[T \ {Max(T)}]]
  <2>1. Max(T) \in 1 .. n
    BY <1>1, <1>10, MaxOfSegment
  <2>2. iter[T] = Absorb(iter[T \ {Max(T)}], v[Max(T)])
    BY <1>8, <1>10
  <2> QED
    BY <1>4, <1>10, <2>1, <2>2
<1>11. Solves(iter, Words, s, n, step)
  BY <1>9, <1>10 DEF Solves
<1>12. \E P : Runs(Words, s, n, step, P) /\ iter[1 .. n] = P[n]
  BY <1>1, <1>3, <1>11, FoldRuns
<1> QED
  BY <1>2, <1>12 DEF n, step

\* What is hashed byte by byte.
LEMMA FnvRuns ==
    ASSUME NEW s \in Words, NEW v \in Seq(Words)
    PROVE  \E P : /\ Runs(Words, s, Len(v),
                          [k \in 1 .. Len(v) |-> [a \in Words |-> FnvByte(a, v[k])]], P)
                  /\ FoldLeft(FnvByte, s, v) = P[Len(v)]
<1> DEFINE n == Len(v)
           step == [k \in 1 .. n |-> [a \in Words |-> FnvByte(a, v[k])]]
           turn(g) == [T \in SUBSET (1 .. n) |->
                         IF T = {} THEN s ELSE FnvByte(g[T \ {Max(T)}], v[Max(T)])]
           iter == CHOOSE g : g = turn(g)
<1>1. n \in Nat /\ DOMAIN v = 1 .. n /\ \A k \in 1 .. n : v[k] \in Words
  OBVIOUS
<1>2. FoldLeft(FnvByte, s, v) = iter[1 .. n]
  BY <1>1 DEF FoldLeft, MapThenFoldSet
<1>3. step \in [1 .. n -> [Words -> Words]]
  BY <1>1, FnvTells
<1>4. \A k \in 1 .. n, a \in Words : step[k][a] = FnvByte(a, v[k])
  OBVIOUS
<1> HIDE DEF n, step
<1>5. PICK g \in [SUBSET (1 .. n) -> Words] : Solves(g, Words, s, n, step)
  BY <1>1, <1>3, FoldExists
<1>6. ASSUME NEW T \in SUBSET (1 .. n)
      PROVE  g[T] = IF T = {} THEN s ELSE FnvByte(g[T \ {Max(T)}], v[Max(T)])
  <2>1. CASE T # {}
    <3>1. Max(T) \in 1 .. n /\ T \ {Max(T)} \in SUBSET (1 .. n)
      BY <1>1, <2>1, MaxOfSegment
    <3>2. g[T \ {Max(T)}] \in Words
      BY <3>1
    <3> QED
      BY <1>4, <1>5, <2>1, <3>1, <3>2 DEF Solves
  <2> QED
    BY <1>5, <2>1 DEF Solves
<1>7. g = turn(g)
  BY <1>6
<1>8. iter = turn(iter)
  BY <1>7
<1> HIDE DEF iter
<1>9. iter[{}] = s
  BY <1>8
<1>10. ASSUME NEW T \in SUBSET (1 .. n), T # {}, iter[T \ {Max(T)}] \in Words
       PROVE  iter[T] = step[Max(T)][iter[T \ {Max(T)}]]
  <2>1. Max(T) \in 1 .. n
    BY <1>1, <1>10, MaxOfSegment
  <2>2. iter[T] = FnvByte(iter[T \ {Max(T)}], v[Max(T)])
    BY <1>8, <1>10
  <2> QED
    BY <1>4, <1>10, <2>1, <2>2
<1>11. Solves(iter, Words, s, n, step)
  BY <1>9, <1>10 DEF Solves
<1>12. \E P : Runs(Words, s, n, step, P) /\ iter[1 .. n] = P[n]
  BY <1>1, <1>3, <1>11, FoldRuns
<1> QED
  BY <1>2, <1>12 DEF n, step

LEMMA BeforeType ==
    ASSUME NEW word \in Nat, NEW byte \in Bytes
    PROVE  Before(word, byte) \in Nat
<1>1. Two[ByteBits] \in Nat /\ byte \in Nat
  BY WordFacts DEF Bytes
<1> DEFINE t == Two[ByteBits]
<1>2. t * word \in Nat
  BY <1>1
<1> QED
  BY <1>1, <1>2 DEF Before

\* How a word is put together.
LEMMA BeforeRuns ==
    ASSUME NEW V, \A a \in V, b \in Bytes : Before(a, b) \in V,
           NEW s \in V, NEW v \in Seq(Bytes)
    PROVE  \E P : /\ Runs(V, s, Len(v),
                          [k \in 1 .. Len(v) |-> [a \in V |-> Before(a, v[k])]], P)
                  /\ FoldLeft(Before, s, v) = P[Len(v)]
<1> DEFINE n == Len(v)
           step == [k \in 1 .. n |-> [a \in V |-> Before(a, v[k])]]
           turn(g) == [T \in SUBSET (1 .. n) |->
                         IF T = {} THEN s ELSE Before(g[T \ {Max(T)}], v[Max(T)])]
           iter == CHOOSE g : g = turn(g)
<1>1. n \in Nat /\ DOMAIN v = 1 .. n /\ \A k \in 1 .. n : v[k] \in Bytes
  OBVIOUS
<1>2. FoldLeft(Before, s, v) = iter[1 .. n]
  BY <1>1 DEF FoldLeft, MapThenFoldSet
<1>3. step \in [1 .. n -> [V -> V]]
  BY <1>1
<1>4. \A k \in 1 .. n, a \in V : step[k][a] = Before(a, v[k])
  OBVIOUS
<1> HIDE DEF n, step
<1>5. PICK g \in [SUBSET (1 .. n) -> V] : Solves(g, V, s, n, step)
  BY <1>1, <1>3, FoldExists
<1>6. ASSUME NEW T \in SUBSET (1 .. n)
      PROVE  g[T] = IF T = {} THEN s ELSE Before(g[T \ {Max(T)}], v[Max(T)])
  <2>1. CASE T # {}
    <3>1. Max(T) \in 1 .. n /\ T \ {Max(T)} \in SUBSET (1 .. n)
      BY <1>1, <2>1, MaxOfSegment
    <3>2. g[T \ {Max(T)}] \in V
      BY <3>1
    <3> QED
      BY <1>4, <1>5, <2>1, <3>1, <3>2 DEF Solves
  <2> QED
    BY <1>5, <2>1 DEF Solves
<1>7. g = turn(g)
  BY <1>6
<1>8. iter = turn(iter)
  BY <1>7
<1> HIDE DEF iter
<1>9. iter[{}] = s
  BY <1>8
<1>10. ASSUME NEW T \in SUBSET (1 .. n), T # {}, iter[T \ {Max(T)}] \in V
       PROVE  iter[T] = step[Max(T)][iter[T \ {Max(T)}]]
  <2>1. Max(T) \in 1 .. n
    BY <1>1, <1>10, MaxOfSegment
  <2>2. iter[T] = Before(iter[T \ {Max(T)}], v[Max(T)])
    BY <1>8, <1>10
  <2> QED
    BY <1>4, <1>10, <2>1, <2>2
<1>11. Solves(iter, V, s, n, step)
  BY <1>9, <1>10 DEF Solves
<1>12. \E P : Runs(V, s, n, step, P) /\ iter[1 .. n] = P[n]
  BY <1>1, <1>3, <1>11, FoldRuns
<1> QED
  BY <1>2, <1>12 DEF n, step

\* Two runs whose steps keep values apart; and are the same but in D, where they
\* take no value to the same.
RunsApart(V, n, s, t, f, g, P, Q, D) ==
    /\ n \in Nat /\ s \in V /\ t \in V
    /\ f \in [1 .. n -> [V -> V]] /\ g \in [1 .. n -> [V -> V]]
    /\ Runs(V, s, n, f, P) /\ Runs(V, t, n, g, Q)
    /\ D \in SUBSET (1 .. n)
    /\ \A k \in (1 .. n) \ D : f[k] = g[k]
    /\ \A k \in D, a \in V : f[k][a] # g[k][a]
    /\ \A k \in 1 .. n, a, b \in V : g[k][a] = g[k][b] => a = b

EndsTell(p, q, s, t, D) ==
    /\ D = {} => (p = q <=> s = t)
    /\ s = t /\ (\E d : D = {d}) => p # q

\* With the same steps the ends are equal when the starts are, and one step that
\* differs makes the ends differ.
LEMMA RunsTell ==
    ASSUME NEW V, NEW n, NEW s, NEW t, NEW f, NEW g, NEW P, NEW Q, NEW D,
           RunsApart(V, n, s, t, f, g, P, Q, D)
    PROVE  EndsTell(P[n], Q[n], s, t, D)
<1>0. /\ n \in Nat /\ s \in V /\ t \in V
      /\ f \in [1 .. n -> [V -> V]] /\ g \in [1 .. n -> [V -> V]]
      /\ Runs(V, s, n, f, P) /\ Runs(V, t, n, g, Q)
      /\ D \in SUBSET (1 .. n)
      /\ \A k \in (1 .. n) \ D : f[k] = g[k]
      /\ \A k \in D, a \in V : f[k][a] # g[k][a]
      /\ \A k \in 1 .. n, a, b \in V : g[k][a] = g[k][b] => a = b
  BY DEF RunsApart
<1> USE <1>0
<1>1. /\ P \in [0 .. n -> V] /\ P[0] = s /\ \A k \in 1 .. n : P[k] = f[k][P[k - 1]]
      /\ Q \in [0 .. n -> V] /\ Q[0] = t /\ \A k \in 1 .. n : Q[k] = g[k][Q[k - 1]]
  BY <1>0 DEF Runs
<1>2. ASSUME NEW k \in Nat, k + 1 <= n
      PROVE  /\ k + 1 \in 1 .. n /\ P[k] \in V /\ Q[k] \in V
             /\ P[k + 1] = f[k + 1][P[k]] /\ Q[k + 1] = g[k + 1][Q[k]]
  <2>1. k + 1 \in 1 .. n /\ k \in 0 .. n /\ (k + 1) - 1 = k
    BY <1>2
  <2> QED
    BY <1>1, <2>1
<1>3. ASSUME NEW k \in Nat, k + 1 <= n, k + 1 \notin D
      PROVE  P[k + 1] = Q[k + 1] <=> P[k] = Q[k]
  <2>1. f[k + 1] = g[k + 1]
    BY <1>2, <1>3
  <2> QED
    BY <1>2, <1>3, <2>1
<1>4. ASSUME NEW E \in SUBSET (1 .. n), \A k \in E : k \notin D
      PROVE  \A k \in Nat : k <= n /\ 1 .. k \subseteq E => (P[k] = Q[k] <=> s = t)
  <2> DEFINE good == {k \in Nat : k <= n /\ 1 .. k \subseteq E => (P[k] = Q[k] <=> s = t)}
  <2>1. 0 \in good
    BY <1>1
  <2>2. ASSUME NEW k \in Nat, k \in good
        PROVE  k + 1 \in good
    <3>1. SUFFICES ASSUME k + 1 <= n, 1 .. k + 1 \subseteq E
                   PROVE  P[k + 1] = Q[k + 1] <=> s = t
      OBVIOUS
    <3>2. k <= n /\ 1 .. k \subseteq 1 .. k + 1 /\ k + 1 \in 1 .. k + 1
      BY <3>1
    <3>3. k + 1 \notin D
      BY <1>4, <3>1, <3>2
    <3>4. P[k] = Q[k] <=> s = t
      BY <2>2, <3>1, <3>2
    <3> QED
      BY <1>3, <3>1, <3>3, <3>4
  <2>3. \A k \in Nat : k \in good
    <3> HIDE DEF good
    <3> QED
      BY <2>1, <2>2, NatInduct
  <2> QED
    BY <2>3
<1>5. D = {} => (P[n] = Q[n] <=> s = t)
  <2>1. ASSUME D = {}
        PROVE  P[n] = Q[n] <=> s = t
    <3>1. \A k \in Nat : k <= n /\ 1 .. k \subseteq 1 .. n => (P[k] = Q[k] <=> s = t)
      BY <1>4, <2>1
    <3> QED
      BY <3>1
  <2> QED
    BY <2>1
<1>6. ASSUME s = t, NEW d, D = {d}
      PROVE  P[n] # Q[n]
  <2>1. d \in 1 .. n /\ d - 1 \in Nat /\ (d - 1) + 1 = d /\ d - 1 <= n
    BY <1>6
  <2>2. P[d - 1] = Q[d - 1]
    <3>1. 1 .. d - 1 \in SUBSET (1 .. n) /\ \A k \in 1 .. d - 1 : k \notin D
      BY <1>6, <2>1
    <3>2. \A k \in Nat : k <= n /\ 1 .. k \subseteq 1 .. d - 1 => (P[k] = Q[k] <=> s = t)
      BY <1>4, <3>1
    <3> QED
      BY <1>6, <2>1, <3>2
  <2>3. P[d] # Q[d]
    <3>1. P[d] = f[d][P[d - 1]] /\ Q[d] = g[d][P[d - 1]] /\ P[d - 1] \in V
      BY <1>2, <2>1, <2>2
    <3>2. d \in D
      BY <1>6
    <3> QED
      BY <3>1, <3>2
  <2> DEFINE good == {k \in Nat : d <= k /\ k <= n => P[k] # Q[k]}
  <2>4. 0 \in good
    BY <2>1
  <2>5. ASSUME NEW k \in Nat, k \in good
        PROVE  k + 1 \in good
    <3>1. SUFFICES ASSUME d <= k + 1, k + 1 <= n
                   PROVE  P[k + 1] # Q[k + 1]
      OBVIOUS
    <3>2. CASE k + 1 = d
      BY <2>3, <3>2
    <3>3. CASE k + 1 # d
      <4>1. d <= k /\ k <= n /\ k + 1 \notin D
        BY <1>6, <2>1, <3>1, <3>3
      <4> QED
        BY <1>3, <2>5, <3>1, <4>1
    <3> QED
      BY <3>2, <3>3
  <2>6. \A k \in Nat : k \in good
    <3> HIDE DEF good
    <3> QED
      BY <2>4, <2>5, NatInduct
  <2> QED
    BY <2>1, <2>6
<1> QED
  BY <1>5, <1>6 DEF EndsTell

-----------------------------------------------------------------------------
(* The words that bytes make.                                              *)

LEMMA ByteIsWord == Bytes \subseteq Words
<1>1. ByteBits \in Nat \ {0} /\ WordBytes \in Nat \ {0}
  BY SeedAssumption
<1>2. ByteBits * (WordBytes - 1) \in Nat /\ ByteBits * WordBytes = ByteBits + ByteBits * (WordBytes - 1)
  BY <1>1
<1>3. ByteBits <= WordBits /\ WordBits \in Nat /\ ByteBits \in Nat
  BY <1>1, <1>2, WordFacts DEF WordBits
<1>4. Two[ByteBits] <= Modulus
  BY <1>3, TwoMonotone, WordFacts
<1> QED
  BY <1>4, WordFacts DEF Bytes

\* Bytes, a word's at most, make a word.
LEMMA WordOfType ==
    ASSUME NEW bytes \in Seq(Bytes), Len(bytes) <= WordBytes
    PROVE  WordOf(bytes) \in Words
<1> DEFINE n == Len(bytes)
           r == Reverse(bytes)
<1>1. n \in Nat /\ n <= WordBytes
  OBVIOUS
<1>2. r \in Seq(Bytes) /\ Len(r) = n
  BY <1>1 DEF Reverse
<1> HIDE DEF n, r
<1>3. \A k \in 1 .. n : r[k] \in Bytes
  BY <1>2
<1>4. PICK V : V = Nat
  OBVIOUS
<1>5. 0 \in V /\ \A a \in V, b \in Bytes : Before(a, b) \in V
  BY <1>4, BeforeType
<1> DEFINE step == [k \in 1 .. Len(r) |-> [a \in V |-> Before(a, r[k])]]
<1>6. PICK P : Runs(V, 0, Len(r), step, P) /\ FoldLeft(Before, 0, r) = P[Len(r)]
  <2>1. \E P : /\ Runs(V, 0, Len(r), [k \in 1 .. Len(r) |-> [a \in V |-> Before(a, r[k])]], P)
               /\ FoldLeft(Before, 0, r) = P[Len(r)]
    BY <1>2, <1>5, BeforeRuns
  <2> QED
    BY <2>1
<1>7. /\ P \in [0 .. n -> Nat] /\ P[0] = 0
      /\ \A k \in 1 .. n : P[k] = Before(P[k - 1], r[k])
  <2>1. P \in [0 .. n -> V] /\ P[0] = 0 /\ \A k \in 1 .. n : P[k] = step[k][P[k - 1]]
    BY <1>2, <1>6 DEF Runs
  <2>2. ASSUME NEW k \in 1 .. n
        PROVE  P[k] = Before(P[k - 1], r[k])
    <3>1. k - 1 \in 0 .. n
      BY <1>1
    <3>2. P[k - 1] \in V /\ k \in 1 .. Len(r)
      BY <1>2, <2>1, <3>1
    <3> QED
      BY <2>1, <3>2
  <2> QED
    BY <1>4, <2>1, <2>2
<1> HIDE DEF step
<1>8. ByteBits \in Nat \ {0} /\ WordBytes \in Nat \ {0}
  BY SeedAssumption
<1> DEFINE good == {k \in Nat : k <= n => P[k] < Two[ByteBits * k]}
<1>9. 0 \in good
  <2>1. ByteBits * 0 = 0
    BY <1>8
  <2> QED
    BY <1>7, <2>1, TwoDef
<1>10. ASSUME NEW k \in Nat, k \in good
       PROVE  k + 1 \in good
  <2>1. SUFFICES ASSUME k + 1 <= n
                 PROVE  P[k + 1] < Two[ByteBits * (k + 1)]
    OBVIOUS
  <2>2. k + 1 \in 1 .. n /\ k \in 0 .. n /\ (k + 1) - 1 = k
    BY <1>1, <2>1
  <2>3. ByteBits * k \in Nat /\ ByteBits * (k + 1) = ByteBits * k + ByteBits
    BY <1>8
  <2> DEFINE b == Two[ByteBits]
             t == Two[ByteBits * k]
             e == r[k + 1]
             p == P[k]
  <2>4. b \in Nat \ {0} /\ t \in Nat \ {0} /\ Two[ByteBits * (k + 1)] = t * b
    BY <1>8, <2>3, TwoDef, TwoPlus
  <2>5. p \in Nat /\ p < t
    BY <1>7, <1>10, <2>1, <2>2
  <2>6. e \in 0 .. b - 1
    BY <1>3, <2>2 DEF Bytes
  <2>7. P[k + 1] = e + b * p
    BY <1>7, <2>2 DEF Before
  <2> HIDE DEF b, t, e, p
  <2>8. t - 1 - p \in Nat /\ b * (t - 1 - p) \in Nat /\ b * (t - 1 - p) = t * b - b - b * p
    BY <2>4, <2>5
  <2>9. b * p \in Nat /\ t * b \in Nat
    BY <2>4, <2>5
  <2> QED
    BY <2>4, <2>6, <2>7, <2>8, <2>9
<1>11. \A k \in Nat : k \in good
  <2> HIDE DEF good
  <2> QED
    BY <1>9, <1>10, NatInduct
<1>12. P[n] \in Nat /\ P[n] < Two[ByteBits * n]
  BY <1>1, <1>7, <1>11
<1>13. Two[ByteBits * n] <= Two[WordBits]
  <2>1. WordBytes - n \in Nat /\ ByteBits * (WordBytes - n) \in Nat
    BY <1>1, <1>8
  <2>2. ByteBits * (WordBytes - n) = ByteBits * WordBytes - ByteBits * n
    BY <1>1, <1>8
  <2>3. ByteBits * n \in Nat /\ ByteBits * WordBytes \in Nat
    BY <1>1, <1>8
  <2>4. ByteBits * n <= WordBits /\ WordBits \in Nat
    BY <2>1, <2>2, <2>3 DEF WordBits
  <2> QED
    BY <2>3, <2>4, TwoMonotone
<1>14. WordOf(bytes) = P[n]
  BY <1>2, <1>6 DEF WordOf, r
<1>15. Two[ByteBits * n] \in Nat
  <2>1. ByteBits * n \in Nat
    BY <1>1, <1>8
  <2> QED
    BY <2>1, TwoDef
<1> QED
  BY <1>12, <1>13, <1>14, <1>15, WordFacts

\* A byte string is absorbed as words.
LEMMA WordsOfType ==
    ASSUME NEW bytes \in Seq(Bytes)
    PROVE  WordsOf(bytes) \in Seq(Words)
<1> DEFINE n == Len(bytes)
           count == (n + WordBytes - 1) \div WordBytes
           first(k) == (k - 1) * WordBytes + 1
           last(k) == IF k * WordBytes <= n THEN k * WordBytes ELSE n
<1>1. n \in Nat /\ WordBytes \in Nat \ {0}
  BY SeedAssumption
<1>2. count \in Nat /\ WordBytes * count <= n + WordBytes - 1
  <2> DEFINE a == n + WordBytes - 1
  <2>1. a \in Nat
    BY <1>1
  <2> HIDE DEF a
  <2>2. /\ a \div WordBytes \in Nat /\ a % WordBytes \in 0 .. WordBytes - 1
        /\ a = WordBytes * (a \div WordBytes) + (a % WordBytes)
    BY <1>1, <2>1, Division
  <2>3. WordBytes * (a \div WordBytes) <= a
    BY <1>1, <2>1, <2>2
  <2> QED
    BY <2>2, <2>3 DEF a
<1> HIDE DEF count
<1>3. ASSUME NEW k \in 1 .. count
      PROVE  WordOf(SubSeq(bytes, first(k), last(k))) \in Words
  <2>1. /\ k * WordBytes \in Nat /\ (k - 1) * WordBytes \in Nat
        /\ (k - 1) * WordBytes = k * WordBytes - WordBytes
    BY <1>1, <1>2
  <2>2. k * WordBytes <= n + WordBytes - 1
    <3>1. count - k \in Nat /\ WordBytes * (count - k) \in Nat
      BY <1>1, <1>2
    <3>2. WordBytes * (count - k) = WordBytes * count - k * WordBytes
      BY <1>1, <1>2
    <3>3. WordBytes * count \in Nat
      BY <1>1, <1>2
    <3> QED
      BY <1>1, <1>2, <2>1, <3>1, <3>2, <3>3
  <2> DEFINE i == first(k)
             j == last(k)
           e == k * WordBytes
  <2>3. i \in 1 .. n /\ j \in 1 .. n /\ j - i < WordBytes /\ i <= j + 1
    <3>1. e \in Nat /\ i = e - WordBytes + 1 /\ j = IF e <= n THEN e ELSE n
      BY <1>1, <2>1
    <3>2. e - WordBytes \in Nat /\ e <= n + WordBytes - 1
      BY <2>1, <2>2
    <3> HIDE DEF i, j, e, n
    <3>3. i \in Nat /\ i >= 1 /\ i <= n
      BY <1>1, <3>1, <3>2
    <3>4. CASE e <= n
      BY <1>1, <3>1, <3>2, <3>3, <3>4
    <3>5. CASE ~(e <= n)
      BY <1>1, <3>1, <3>2, <3>3, <3>5
    <3> QED
      BY <3>4, <3>5
  <2> HIDE DEF i, j
  <2>4. SubSeq(bytes, i, j) \in Seq(Bytes) /\ Len(SubSeq(bytes, i, j)) <= WordBytes
    <3>1. j - i + 1 \in Nat /\ \A m \in i .. j : m \in 1 .. n /\ bytes[m] \in Bytes
      BY <1>1, <2>3
    <3>2. /\ SubSeq(bytes, i, j) \in Seq(Bytes)
          /\ Len(SubSeq(bytes, i, j)) = j - i + 1
      BY <1>1, <2>3, <3>1
    <3> QED
      BY <1>1, <2>3, <3>2
  <2> QED
    BY <2>4, WordOfType DEF i, j
<1>4. WordsOf(bytes) = [k \in 1 .. count |-> WordOf(SubSeq(bytes, first(k), last(k)))]
  BY DEF WordsOf, count
<1> HIDE DEF first, last
<1> QED
  BY <1>2, <1>3, <1>4

-----------------------------------------------------------------------------
(* Two hashers.                                                            *)

\* Hashers that absorb the same words stay as they were to each other, equal or
\* not; of two that are equal, one word that differs makes different ones.
LEMMA AbsorbedTell ==
    ASSUME NEW s \in Words, NEW t \in Words, NEW v \in Seq(Words), NEW w \in Seq(Words)
    PROVE  /\ FoldLeft(Absorb, s, v) \in Words
           /\ Differing(v, w) = 0 =>
                (FoldLeft(Absorb, s, v) = FoldLeft(Absorb, t, w) <=> s = t)
           /\ Differing(v, w) = 1 /\ s = t =>
                FoldLeft(Absorb, s, v) # FoldLeft(Absorb, t, w)
<1> DEFINE f == [k \in 1 .. Len(v) |-> [a \in Words |-> Absorb(a, v[k])]]
           g == [k \in 1 .. Len(w) |-> [a \in Words |-> Absorb(a, w[k])]]
<1>1. PICK P : Runs(Words, s, Len(v), f, P) /\ FoldLeft(Absorb, s, v) = P[Len(v)]
  BY AbsorbRuns
<1>2. PICK Q : Runs(Words, t, Len(w), g, Q) /\ FoldLeft(Absorb, t, w) = Q[Len(w)]
  BY AbsorbRuns
<1>3. P[Len(v)] \in Words
  <2>1. Len(v) \in 0 .. Len(v)
    OBVIOUS
  <2> QED
    BY <1>1, <2>1 DEF Runs
<1>4. ASSUME Differing(v, w) \in {0, 1}
      PROVE  /\ Differing(v, w) = 0 => (P[Len(v)] = Q[Len(w)] <=> s = t)
             /\ Differing(v, w) = 1 /\ s = t => P[Len(v)] # Q[Len(w)]
  <2> DEFINE n == Len(v)
             D == {k \in 1 .. n : v[k] # w[k]}
  <2>1. Len(w) = n /\ Differing(v, w) = Cardinality(D)
    BY <1>4 DEF Differing, Many
  <2>2. n \in Nat /\ IsFiniteSet(D) /\ D \in SUBSET (1 .. n)
    <3>1. n \in Nat /\ IsFiniteSet(1 .. n)
      BY FS_Interval
    <3> QED
      BY <3>1, FS_Subset
  <2>3. \A k \in 1 .. n : v[k] \in Words /\ w[k] \in Words
    BY <2>1
  <2>4. f \in [1 .. n -> [Words -> Words]] /\ g \in [1 .. n -> [Words -> Words]]
    BY <2>1, <2>3, AbsorbTells
  <2>5. \A k \in (1 .. n) \ D : f[k] = g[k]
    BY <2>1
  <2>6. \A k \in 1 .. n, a \in Words : f[k][a] = Absorb(a, v[k]) /\ g[k][a] = Absorb(a, w[k])
    BY <2>1
  <2>7. \A k \in D, a \in Words : f[k][a] # g[k][a]
    <3>1. ASSUME NEW k \in D, NEW a \in Words
          PROVE  f[k][a] # g[k][a]
      <4>1. k \in 1 .. n /\ v[k] # w[k]
        OBVIOUS
      <4>2. v[k] \in Words /\ w[k] \in Words
        BY <2>3, <4>1
      <4>3. Absorb(a, v[k]) # Absorb(a, w[k])
        BY <4>1, <4>2, AbsorbTells
      <4> HIDE DEF f, g, D, n
      <4> QED
        BY <2>6, <4>1, <4>3
    <3> QED
      BY <3>1
  <2>8. \A k \in 1 .. n, a, b \in Words : g[k][a] = g[k][b] => a = b
    <3> HIDE DEF f, g, D, n
    <3> QED
      BY <2>3, <2>6, AbsorbTells
  <2>9. Runs(Words, s, n, f, P) /\ Runs(Words, t, n, g, Q)
    BY <1>1, <1>2, <2>1
  <2>10. /\ Cardinality(D) = 0 => D = {}
         /\ Cardinality(D) = 1 => \E d : D = {d}
    <3> HIDE DEF D
    <3> QED
      BY <2>2, FS_EmptySet, FS_Singleton
  <2> HIDE DEF f, g, D, n
  <2>11. RunsApart(Words, n, s, t, f, g, P, Q, D)
    BY <2>2, <2>4, <2>5, <2>7, <2>8, <2>9 DEF RunsApart
  <2>12. EndsTell(P[n], Q[n], s, t, D)
    BY <2>11, RunsTell
  <2> QED
    BY <2>1, <2>10, <2>12 DEF n, EndsTell
<1> QED
  BY <1>1, <1>2, <1>3, <1>4

\* So it is with the bytes of FNV-1a.
LEMMA BytesTell ==
    ASSUME NEW s \in Words, NEW t \in Words, NEW v \in Seq(Words), NEW w \in Seq(Words)
    PROVE  /\ FoldLeft(FnvByte, s, v) \in Words
           /\ Differing(v, w) = 0 =>
                (FoldLeft(FnvByte, s, v) = FoldLeft(FnvByte, t, w) <=> s = t)
           /\ Differing(v, w) = 1 /\ s = t =>
                FoldLeft(FnvByte, s, v) # FoldLeft(FnvByte, t, w)
<1> DEFINE f == [k \in 1 .. Len(v) |-> [a \in Words |-> FnvByte(a, v[k])]]
           g == [k \in 1 .. Len(w) |-> [a \in Words |-> FnvByte(a, w[k])]]
<1>1. PICK P : Runs(Words, s, Len(v), f, P) /\ FoldLeft(FnvByte, s, v) = P[Len(v)]
  BY FnvRuns
<1>2. PICK Q : Runs(Words, t, Len(w), g, Q) /\ FoldLeft(FnvByte, t, w) = Q[Len(w)]
  BY FnvRuns
<1>3. P[Len(v)] \in Words
  <2>1. Len(v) \in 0 .. Len(v)
    OBVIOUS
  <2> QED
    BY <1>1, <2>1 DEF Runs
<1>4. ASSUME Differing(v, w) \in {0, 1}
      PROVE  /\ Differing(v, w) = 0 => (P[Len(v)] = Q[Len(w)] <=> s = t)
             /\ Differing(v, w) = 1 /\ s = t => P[Len(v)] # Q[Len(w)]
  <2> DEFINE n == Len(v)
             D == {k \in 1 .. n : v[k] # w[k]}
  <2>1. Len(w) = n /\ Differing(v, w) = Cardinality(D)
    BY <1>4 DEF Differing, Many
  <2>2. n \in Nat /\ IsFiniteSet(D) /\ D \in SUBSET (1 .. n)
    <3>1. n \in Nat /\ IsFiniteSet(1 .. n)
      BY FS_Interval
    <3> QED
      BY <3>1, FS_Subset
  <2>3. \A k \in 1 .. n : v[k] \in Words /\ w[k] \in Words
    BY <2>1
  <2>4. f \in [1 .. n -> [Words -> Words]] /\ g \in [1 .. n -> [Words -> Words]]
    BY <2>1, <2>3, FnvTells
  <2>5. \A k \in (1 .. n) \ D : f[k] = g[k]
    BY <2>1
  <2>6. \A k \in 1 .. n, a \in Words : f[k][a] = FnvByte(a, v[k]) /\ g[k][a] = FnvByte(a, w[k])
    BY <2>1
  <2>7. \A k \in D, a \in Words : f[k][a] # g[k][a]
    <3>1. ASSUME NEW k \in D, NEW a \in Words
          PROVE  f[k][a] # g[k][a]
      <4>1. k \in 1 .. n /\ v[k] # w[k]
        OBVIOUS
      <4>2. v[k] \in Words /\ w[k] \in Words
        BY <2>3, <4>1
      <4>3. FnvByte(a, v[k]) # FnvByte(a, w[k])
        BY <4>1, <4>2, FnvTells
      <4> HIDE DEF f, g, D, n
      <4> QED
        BY <2>6, <4>1, <4>3
    <3> QED
      BY <3>1
  <2>8. \A k \in 1 .. n, a, b \in Words : g[k][a] = g[k][b] => a = b
    <3> HIDE DEF f, g, D, n
    <3> QED
      BY <2>3, <2>6, FnvTells
  <2>9. Runs(Words, s, n, f, P) /\ Runs(Words, t, n, g, Q)
    BY <1>1, <1>2, <2>1
  <2>10. /\ Cardinality(D) = 0 => D = {}
         /\ Cardinality(D) = 1 => \E d : D = {d}
    <3> HIDE DEF D
    <3> QED
      BY <2>2, FS_EmptySet, FS_Singleton
  <2> HIDE DEF f, g, D, n
  <2>11. RunsApart(Words, n, s, t, f, g, P, Q, D)
    BY <2>2, <2>4, <2>5, <2>7, <2>8, <2>9 DEF RunsApart
  <2>12. EndsTell(P[n], Q[n], s, t, D)
    BY <2>11, RunsTell
  <2> QED
    BY <2>1, <2>10, <2>12 DEF n, EndsTell
<1> QED
  BY <1>1, <1>2, <1>3, <1>4

\* A number is absorbed as one word.
LEMMA OneWord ==
    ASSUME NEW s \in Words, NEW word \in Words
    PROVE  FoldLeft(Absorb, s, <<word>>) = Absorb(s, word)
<1> DEFINE v == <<word>>
           f == [k \in 1 .. Len(v) |-> [a \in Words |-> Absorb(a, v[k])]]
<1>1. v \in Seq(Words) /\ Len(v) = 1 /\ v[1] = word
  OBVIOUS
<1>2. PICK P : Runs(Words, s, Len(v), f, P) /\ FoldLeft(Absorb, s, v) = P[Len(v)]
  <2> HIDE DEF v
  <2> QED
    BY <1>1, AbsorbRuns
<1>3. f[1][s] = Absorb(s, word)
  BY <1>1
<1>4. P[0] = s /\ P[1] = f[1][P[1 - 1]]
  <2>1. 1 \in 1 .. Len(v)
    BY <1>1
  <2> HIDE DEF f, v
  <2> QED
    BY <1>2, <2>1 DEF Runs
<1>5. 1 - 1 = 0
  OBVIOUS
<1> QED
  BY <1>1, <1>2, <1>3, <1>4, <1>5

LEMMA DifferingType ==
    ASSUME NEW S, NEW v \in Seq(S), NEW w \in Seq(S)
    PROVE  Differing(v, w) \in Nat
<1>1. IsFiniteSet(1 .. Len(v))
  BY FS_Interval
<1>2. IsFiniteSet({k \in 1 .. Len(v) : v[k] # w[k]})
  BY <1>1, FS_Subset
<1>3. Cardinality({k \in 1 .. Len(v) : v[k] # w[k]}) \in Nat
  BY <1>2, FS_CardinalityType
<1> QED
  BY <1>3 DEF Differing, Many

\* The hash tells states, and lengths, apart.
LEMMA FinishTells ==
    ASSUME NEW s \in Words, NEW t \in Words, NEW k \in Words,
           NEW m \in Words, NEW n \in Words,
           NEW h, h = [state |-> s, k1 |-> k, len |-> m],
           NEW g, g = [state |-> t, k1 |-> k, len |-> n]
    PROVE  /\ m = n /\ s # t => Finish(h) # Finish(g)
           /\ m # n /\ s = t => Finish(h) # Finish(g)
           /\ m = n /\ s = t => Finish(h) = Finish(g)
<1>1. Finish(h) = Fmix(Xor(Xor(s, k), m)) /\ Finish(g) = Fmix(Xor(Xor(t, k), n))
  BY DEF Finish
<1> DEFINE a == Xor(s, k)
           b == Xor(t, k)
<1>2. a \in Words /\ b \in Words /\ (a = b => s = t) /\ (s = t => a = b)
  BY XorBits, XorTells
<1> HIDE DEF a, b
<1>3. Xor(a, m) \in Words /\ Xor(b, n) \in Words
  BY <1>2, XorBits
<1>4. /\ m = n /\ Xor(a, m) = Xor(b, n) => a = b
      /\ a = b /\ Xor(a, m) = Xor(b, n) => m = n
  BY <1>2, XorTells
<1>5. Fmix(Xor(a, m)) = Fmix(Xor(b, n)) => Xor(a, m) = Xor(b, n)
  BY <1>3, MixedTells DEF Fmix
<1>6. Finish(h) = Fmix(Xor(a, m)) /\ Finish(g) = Fmix(Xor(b, n))
  BY <1>1 DEF a, b
<1> QED
  BY <1>2, <1>4, <1>5, <1>6

\* What has been counted of differences says whether two values are the same:
\* none, and they are; one, and they are not; several, and nothing is known.
Tells(d, a, b) == d \in 0 .. Many /\ (d = 0 => a = b) /\ (d = 1 => a # b)

\* DifferenceTells looks at hashes, and at what one difference did.  It is kept
\* because no difference keeps the states equal, and because each write, told
\* from the words alone, takes equal states to equal ones and others to others.
HashInv ==
    /\ HashTypeOK
    /\ Tells(apart, one.state, other.state)
    /\ Tells(bytesApart, fnvOne, fnvOther)

LEMMA TellsStep ==
    ASSUME NEW d, NEW a, NEW b, Tells(d, a, b), NEW e \in Nat, NEW p, NEW q,
           e = 0 => (p = q <=> a = b), e = 1 /\ a = b => p # q
    PROVE  Tells(UpToMany(d + e), p, q)
<1>1. d \in 0 .. 2 /\ (d = 0 => a = b) /\ (d = 1 => a # b)
  BY DEF Tells, Many
<1>2. UpToMany(d + e) = IF d + e > 2 THEN 2 ELSE d + e
  BY DEF UpToMany, Many
<1>3. UpToMany(d + e) \in 0 .. 2
  BY <1>1, <1>2
<1>4. UpToMany(d + e) = 0 => d = 0 /\ e = 0
  BY <1>1, <1>2
<1>5. UpToMany(d + e) = 1 => (d = 0 /\ e = 1) \/ (d = 1 /\ e = 0)
  BY <1>1, <1>2
<1> QED
  BY <1>1, <1>3, <1>4, <1>5 DEF Tells, Many

LEMMA SplitmixType ==
    ASSUME NEW seed \in Words
    PROVE  Splitmix(seed) \in Words
<1>1. Stir.add \in Nat /\ seed \in Nat
  BY SeedAssumption, WordFacts
<1>2. (seed + Stir.add) % Modulus \in Words
  <2> DEFINE a == seed + Stir.add
  <2>1. a \in Nat
    BY <1>1
  <2> HIDE DEF a
  <2>2. a % Modulus \in 0 .. Modulus - 1
    BY <2>1, WordFacts, Division
  <2> QED
    BY <2>2, WordFacts DEF a
<1> QED
  BY <1>2, MixedTells DEF Splitmix

LEMMA SeededType ==
    ASSUME NEW seed \in Words
    PROVE  /\ WithSeed(seed) \in [k0 : Words, k1 : Words]
           /\ TableFor(seed) \in [k0 : Words, k1 : Words]
<1>1. \A s \in Words : WithSeed(s) \in [k0 : Words, k1 : Words]
  BY SplitmixType DEF WithSeed
<1>2. Salt \in Words
  BY SeedAssumption
<1>3. Xor(Splitmix(seed), Salt) \in Words
  BY <1>2, SplitmixType, XorBits
<1> QED
  BY <1>1, <1>3 DEF TableFor

LEMMA HashInvInit == HashInit => HashInv
<1> SUFFICES ASSUME HashInit PROVE HashInv
  OBVIOUS
<1>1. fn \in [k0 : Words, k1 : Words]
  BY SeedAssumption, SeededType DEF HashInit
<1>2. 0 \in Words /\ FnvOffset \in Words
  BY SeedAssumption, WordFacts
<1>3. /\ NewHasher(fn) = [state |-> fn.k0, k1 |-> fn.k1, len |-> 0]
      /\ NewHasher(fn) \in [state : Words, k1 : {fn.k1}, len : Words]
  BY <1>1, <1>2 DEF NewHasher
<1>4. HashTypeOK
  BY <1>1, <1>2, <1>3 DEF HashInit, HashTypeOK, Many
<1>5. Tells(apart, one.state, other.state) /\ Tells(bytesApart, fnvOne, fnvOther)
  BY DEF HashInit, Tells, Many
<1> QED
  BY <1>4, <1>5 DEF HashInv

\* A hasher that goes on is one of the same function.
LEMMA WriteType ==
    ASSUME NEW k, NEW h \in [state : Words, k1 : {k}, len : Words]
    PROVE  /\ \A bytes \in Seq(Bytes) :
                /\ Write(h, bytes) \in [state : Words, k1 : {k}, len : Words]
                /\ Write(h, bytes).state = FoldLeft(Absorb, h.state, WordsOf(bytes))
           /\ \A word \in Words :
                /\ WriteWord(h, word) \in [state : Words, k1 : {k}, len : Words]
                /\ WriteWord(h, word).state = FoldLeft(Absorb, h.state, <<word>>)
<1>1. h.state \in Words /\ h.len \in Words /\ h.len \in Nat
  BY WordFacts
<1>2. ASSUME NEW m \in Nat
      PROVE  (h.len + m) % Modulus \in Words
  <2> DEFINE a == h.len + m
  <2>1. a \in Nat
    BY <1>1
  <2> HIDE DEF a
  <2>2. a % Modulus \in 0 .. Modulus - 1
    BY <2>1, WordFacts, Division
  <2> QED
    BY <2>2, WordFacts DEF a
<1>3. ASSUME NEW bytes \in Seq(Bytes)
      PROVE  /\ Write(h, bytes) \in [state : Words, k1 : {k}, len : Words]
             /\ Write(h, bytes).state = FoldLeft(Absorb, h.state, WordsOf(bytes))
  <2>1. FoldLeft(Absorb, h.state, WordsOf(bytes)) \in Words
    BY <1>1, WordsOfType, AbsorbedTell
  <2> DEFINE state == FoldLeft(Absorb, h.state, WordsOf(bytes))
             len == (h.len + Len(bytes)) % Modulus
  <2>2. state \in Words /\ len \in Words
    BY <1>2, <2>1
  <2>3. Write(h, bytes) = [h EXCEPT !.state = state, !.len = len]
    BY DEF Write
  <2> HIDE DEF state, len
  <2>4. /\ [h EXCEPT !.state = state, !.len = len] \in [state : Words, k1 : {k}, len : Words]
        /\ [h EXCEPT !.state = state, !.len = len].state = state
    BY <2>2
  <2> QED
    BY <2>3, <2>4 DEF state
<1>4. ASSUME NEW word \in Words
      PROVE  /\ WriteWord(h, word) \in [state : Words, k1 : {k}, len : Words]
             /\ WriteWord(h, word).state = FoldLeft(Absorb, h.state, <<word>>)
  <2>1. Absorb(h.state, word) \in Words /\ FoldLeft(Absorb, h.state, <<word>>) = Absorb(h.state, word)
    BY <1>1, AbsorbTells, OneWord
  <2>2. (h.len + WordBytes) % Modulus \in Words
    BY <1>2, SeedAssumption
  <2> QED
    BY <2>1, <2>2 DEF WriteWord
<1> QED
  BY <1>3, <1>4

\* So whatever words the two absorb, what is counted tells their states.
LEMMA AbsorbedStep ==
    ASSUME NEW d, NEW s \in Words, NEW t \in Words, Tells(d, s, t),
           NEW v \in Seq(Words), NEW w \in Seq(Words)
    PROVE  Tells(UpToMany(d + Differing(v, w)),
                 FoldLeft(Absorb, s, v), FoldLeft(Absorb, t, w))
<1> DEFINE e == Differing(v, w)
           p == FoldLeft(Absorb, s, v)
           q == FoldLeft(Absorb, t, w)
<1>1. e \in Nat
  BY DifferingType
<1>2. (e = 0 => (p = q <=> s = t)) /\ (e = 1 /\ s = t => p # q)
  BY AbsorbedTell
<1> HIDE DEF e, p, q
<1>3. Tells(UpToMany(d + e), p, q)
  BY <1>1, <1>2, TellsStep
<1> QED
  BY <1>3 DEF e, p, q

LEMMA FnvStep ==
    ASSUME NEW d, NEW s \in Words, NEW t \in Words, Tells(d, s, t),
           NEW v \in Seq(Bytes), NEW w \in Seq(Bytes)
    PROVE  /\ Fnv(s, v) \in Words
           /\ Tells(UpToMany(d + Differing(v, w)), Fnv(s, v), Fnv(t, w))
<1>1. v \in Seq(Words) /\ w \in Seq(Words)
  BY ByteIsWord
<1> DEFINE e == Differing(v, w)
           p == FoldLeft(FnvByte, s, v)
           q == FoldLeft(FnvByte, t, w)
<1>2. e \in Nat
  BY DifferingType
<1>3. p \in Words /\ (e = 0 => (p = q <=> s = t)) /\ (e = 1 /\ s = t => p # q)
  BY <1>1, BytesTell
<1> HIDE DEF e, p, q
<1>4. Tells(UpToMany(d + e), p, q)
  BY <1>2, <1>3, TellsStep
<1> QED
  BY <1>3, <1>4 DEF e, p, q, Fnv

\* What a key writes is made of bytes.
LEMMA WrittenType == Pieces \subseteq Seq(Bytes) /\ Numbers \subseteq Words
  BY SeedAssumption, WordOfType DEF Numbers

LEMMA HashInvStep == HashInv /\ [HashNext]_hashVars => HashInv'
<1> SUFFICES ASSUME HashInv, [HashNext]_hashVars PROVE HashInv'
  OBVIOUS
<1> DEFINE Hashers == [state : Words, k1 : {fn.k1}, len : Words]
<1>1. /\ fn \in [k0 : Words, k1 : Words] /\ one \in Hashers /\ other \in Hashers
      /\ fnvOne \in Words /\ fnvOther \in Words
      /\ Tells(apart, one.state, other.state) /\ Tells(bytesApart, fnvOne, fnvOther)
  BY DEF HashInv, HashTypeOK
<1>2. one.state \in Words /\ other.state \in Words
  BY <1>1
\* What is left to show of a write.
<1>3. ASSUME fn' = fn, one' \in Hashers, other' \in Hashers,
             fnvOne' \in Words, fnvOther' \in Words,
             Tells(apart', one'.state, other'.state),
             Tells(bytesApart', fnvOne', fnvOther')
      PROVE  HashInv'
  <2>1. apart' \in 0 .. Many /\ bytesApart' \in 0 .. Many
    BY <1>3 DEF Tells
  <2>2. HashTypeOK'
    BY <1>1, <1>3, <2>1 DEF HashTypeOK, Many
  <2> QED
    BY <1>3, <2>2 DEF HashInv, Tells, Many
<1>4. ASSUME NEW a \in Pieces, NEW b \in Pieces, WriteBytes(a, b)
      PROVE  HashInv'
  <2>1. a \in Seq(Bytes) /\ b \in Seq(Bytes)
    BY WrittenType
  <2>2. WordsOf(a) \in Seq(Words) /\ WordsOf(b) \in Seq(Words)
    BY <2>1, WordsOfType
  <2>3. /\ one' \in Hashers /\ one'.state = FoldLeft(Absorb, one.state, WordsOf(a))
        /\ other' \in Hashers /\ other'.state = FoldLeft(Absorb, other.state, WordsOf(b))
    BY <1>1, <1>4, <2>1, WriteType DEF WriteBytes
  <2>4. Tells(apart', one'.state, other'.state)
    <3>1. apart' = UpToMany(apart + Differing(WordsOf(a), WordsOf(b)))
      BY <1>4 DEF WriteBytes, Count
    <3> QED
      BY <1>1, <1>2, <2>2, <2>3, <3>1, AbsorbedStep
  <2>5. /\ fnvOne' \in Words /\ fnvOther' \in Words
        /\ Tells(bytesApart', fnvOne', fnvOther')
    <3>1. /\ fnvOne' = Fnv(fnvOne, a) /\ fnvOther' = Fnv(fnvOther, b)
          /\ bytesApart' = UpToMany(bytesApart + Differing(a, b))
      BY <1>4 DEF WriteBytes
    <3>2. /\ Fnv(fnvOne, a) \in Words
          /\ Tells(UpToMany(bytesApart + Differing(a, b)), Fnv(fnvOne, a), Fnv(fnvOther, b))
      BY <1>1, <2>1, FnvStep
    <3>3. Fnv(fnvOther, b) \in Words
      <4>1. Tells(0, fnvOther, fnvOther)
        BY DEF Tells, Many
      <4> QED
        BY <1>1, <2>1, <4>1, FnvStep
    <3> QED
      BY <3>1, <3>2, <3>3
  <2>6. fn' = fn
    BY <1>4 DEF WriteBytes, Count
  <2> QED
    BY <1>3, <2>3, <2>4, <2>5, <2>6
<1>5. ASSUME NEW a \in Numbers, NEW b \in Numbers, WriteWords(a, b)
      PROVE  HashInv'
  <2>1. a \in Words /\ b \in Words /\ <<a>> \in Seq(Words) /\ <<b>> \in Seq(Words)
    BY WrittenType
  <2>2. /\ one' \in Hashers /\ one'.state = FoldLeft(Absorb, one.state, <<a>>)
        /\ other' \in Hashers /\ other'.state = FoldLeft(Absorb, other.state, <<b>>)
    BY <1>1, <1>5, <2>1, WriteType DEF WriteWords
  <2>3. /\ apart' = UpToMany(apart + Differing(<<a>>, <<b>>))
        /\ fn' = fn /\ UNCHANGED <<fnvOne, fnvOther, bytesApart>>
    BY <1>5 DEF WriteWords, Count
  <2>4. Tells(apart', one'.state, other'.state)
    <3> DEFINE v == <<a>>
               w == <<b>>
    <3>1. v \in Seq(Words) /\ w \in Seq(Words)
      BY <2>1
    <3>2. /\ apart' = UpToMany(apart + Differing(v, w))
          /\ one'.state = FoldLeft(Absorb, one.state, v)
          /\ other'.state = FoldLeft(Absorb, other.state, w)
      BY <2>2, <2>3
    <3> HIDE DEF v, w
    <3> QED
      BY <1>1, <1>2, <3>1, <3>2, AbsorbedStep
  <2> QED
    BY <1>1, <1>3, <2>2, <2>3, <2>4
<1>6. ASSUME NEW a \in Numbers, NEW b \in Pieces, WriteEither(a, b)
      PROVE  HashInv'
  <2>1. a \in Words /\ <<a>> \in Seq(Words) /\ b \in Seq(Bytes)
    BY WrittenType
  <2>2. WordsOf(b) \in Seq(Words)
    BY <2>1, WordsOfType
  <2>3. /\ one' \in Hashers /\ one'.state = FoldLeft(Absorb, one.state, <<a>>)
        /\ other' \in Hashers /\ other'.state = FoldLeft(Absorb, other.state, WordsOf(b))
    BY <1>1, <1>6, <2>1, WriteType DEF WriteEither
  <2>4. /\ apart' = UpToMany(apart + Differing(<<a>>, WordsOf(b)))
        /\ fn' = fn /\ UNCHANGED <<fnvOne, fnvOther, bytesApart>>
    BY <1>6 DEF WriteEither, Count
  <2>5. Tells(apart', one'.state, other'.state)
    <3> DEFINE v == <<a>>
    <3>1. v \in Seq(Words)
      BY <2>1
    <3>2. /\ apart' = UpToMany(apart + Differing(v, WordsOf(b)))
          /\ one'.state = FoldLeft(Absorb, one.state, v)
          /\ other'.state = FoldLeft(Absorb, other.state, WordsOf(b))
      BY <2>3, <2>4
    <3> HIDE DEF v
    <3> QED
      BY <1>1, <1>2, <2>2, <3>1, <3>2, AbsorbedStep
  <2> QED
    BY <1>1, <1>3, <2>3, <2>4, <2>5
<1>7. CASE UNCHANGED hashVars
  BY <1>1, <1>3, <1>7 DEF hashVars
<1> QED
  BY <1>4, <1>5, <1>6, <1>7 DEF HashNext

\* What is known of two hashers (HashInv), for every word size, seed and constant
\* of the arithmetic, and every number of writes.
LEMMA HashInvariance == HashSpec => []HashInv
  BY HashInvInit, HashInvStep, PTL DEF HashSpec

\* However often the arithmetic wraps, states, lengths and hashes are words
\* (seed.rs): nothing but the rotation and the modulus sees to it.
THEOREM HashTypeCorrect == HashSpec => []HashTypeOK
<1>1. HashInv => HashTypeOK
  BY DEF HashInv
<1> QED
  BY <1>1, HashInvariance, PTL

\* There is no cheap collision (seed.rs, absorb, write and finish; jump_hash.rs,
\* fnv1a_hash), for every seed, word size and odd factor: keys that differ in a
\* word, or in nothing but their length, hash differently, while a number and its
\* bytes hash the same; and byte strings that differ in a byte differ in FNV-1a.
THEOREM HashTellsDifference == HashSpec => []DifferenceTells
<1>1. HashInv => DifferenceTells
  <2> SUFFICES ASSUME HashInv PROVE DifferenceTells
    OBVIOUS
  <2>1. /\ fn \in [k0 : Words, k1 : Words]
        /\ one \in [state : Words, k1 : {fn.k1}, len : Words]
        /\ other \in [state : Words, k1 : {fn.k1}, len : Words]
    BY DEF HashInv, HashTypeOK
  <2>2. /\ one = [state |-> one.state, k1 |-> fn.k1, len |-> one.len]
        /\ other = [state |-> other.state, k1 |-> fn.k1, len |-> other.len]
        /\ one.state \in Words /\ other.state \in Words /\ fn.k1 \in Words
        /\ one.len \in Words /\ other.len \in Words
    BY <2>1
  <2>3. /\ one.len = other.len /\ one.state # other.state => Finish(one) # Finish(other)
        /\ one.len # other.len /\ one.state = other.state => Finish(one) # Finish(other)
        /\ one.len = other.len /\ one.state = other.state => Finish(one) = Finish(other)
    BY <2>2, FinishTells
  <2>4. /\ apart = 0 => one.state = other.state
        /\ apart = 1 => one.state # other.state
        /\ bytesApart = 1 => fnvOne # fnvOther
    BY DEF HashInv, Tells
  <2> QED
    BY <2>3, <2>4 DEF DifferenceTells
<1> QED
  BY <1>1, HashInvariance, PTL


-----------------------------------------------------------------------------
(* Seeds.                                                                  *)

LEMMA SplitmixTells ==
    ASSUME NEW a \in Words, NEW b \in Words, Splitmix(a) = Splitmix(b)
    PROVE  a = b
<1> DEFINE s == (a + Stir.add) % Modulus
           t == (b + Stir.add) % Modulus
<1>1. /\ a \in Nat /\ b \in Nat /\ Stir.add \in Nat /\ Modulus \in Nat \ {0}
      /\ a < Modulus /\ b < Modulus
  <2>1. Stir.add \in Words
    BY SeedAssumption
  <2>2. \A n \in Words : n \in Nat /\ n < Modulus
    BY WordFacts
  <2> QED
    BY <2>1, <2>2, WordFacts
<1>2. a + Stir.add \in Nat /\ b + Stir.add \in Nat
  BY <1>1
<1>3. s \in Words /\ t \in Words
  BY <1>1, <1>2, Division, WordFacts
<1>4. Mixed(s, Stir) = Mixed(t, Stir)
  BY DEF Splitmix
<1> HIDE DEF s, t
<1>5. s = t
  BY <1>3, <1>4, MixedTells
<1>6. Congruent(a + Stir.add, b + Stir.add, Modulus)
  BY <1>5 DEF Congruent, s, t
<1>7. Congruent(a, b, Modulus)
  BY <1>1, <1>6, ModCancel
<1>8. a % Modulus = a /\ b % Modulus = b
  BY <1>1
<1> QED
  BY <1>7, <1>8 DEF Congruent

\* Two seeds never make one state (seed.rs, with_seed, table_for): the caches of
\* two seeds hash by different keys, and so do the tables in their shards.
THEOREM SeedsTell ==
    \A a, b \in Words : a # b => WithSeed(a) # WithSeed(b) /\ TableFor(a) # TableFor(b)
<1>1. ASSUME NEW a \in Words, NEW b \in Words, WithSeed(a) = WithSeed(b)
      PROVE  a = b
  <2>1. Splitmix(a) = Splitmix(b)
    BY <1>1 DEF WithSeed
  <2> QED
    BY <2>1, SplitmixTells
<1>2. ASSUME NEW a \in Words, NEW b \in Words, TableFor(a) = TableFor(b)
      PROVE  a = b
  <2>1. /\ Salt \in Words /\ Splitmix(a) \in Words /\ Splitmix(b) \in Words
    BY SeedAssumption, SplitmixType
  <2>2. Xor(Splitmix(a), Salt) \in Words /\ Xor(Splitmix(b), Salt) \in Words
    BY <2>1, XorBits
  <2>3. Xor(Splitmix(a), Salt) = Xor(Splitmix(b), Salt)
    BY <1>1, <1>2, <2>2 DEF TableFor
  <2>4. Splitmix(a) = Splitmix(b)
    BY <2>1, <2>3, XorTells
  <2> QED
    BY <2>4, SplitmixTells
<1> QED
  BY <1>1, <1>2

=============================================================================
