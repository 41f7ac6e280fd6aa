------------------------------ MODULE JumpHash ------------------------------
(***************************************************************************)
(* Jump consistent hashing (jump_hash.rs): which of n nodes owns a hash.   *)
(* One call is a walk over the nodes; here the calls that nodes make for   *)
(* one hash, each with the number of nodes it believes in, are taken       *)
(* together, a turn of the loop at a time.  The floating point arithmetic  *)
(* is the code's, scaled down: values are rounded to a significand, to     *)
(* nearest and ties to even, twice.                                        *)
(***************************************************************************)
EXTENDS Integers, PowersOfTwo

CONSTANTS
    Draws,        \* values of the high bits that are drawn (2^31)
    Low,          \* values of the low bits that are shifted out (2^33)
    Multiplier,   \* of the generator (2862933555777941757)
    Precision,    \* 1 in units of the last place (2^52)
    MaxExponent,  \* of a float (1023)
    Sizes         \* the values of num_buckets the calls are made with

Word == Draws * Low

\* The first float of each binade from 1 on.
Binades == {Two[e] : e \in 0 .. MaxExponent}

\* A number of nodes is a float, and the largest is beyond all that is computed.
ASSUME JumpAssumption ==
    /\ Draws \in Nat \ {0} /\ Low \in Nat \ {0}
    /\ Multiplier \in Nat
    /\ MaxExponent \in Nat /\ Precision \in Binades
    /\ Sizes \subseteq Int
    /\ Draws <= Two[MaxExponent]
    /\ \A n \in Sizes : n <= Precision /\ n * Draws < Two[MaxExponent]

\* A division rounded to the nearest integer, ties to even.
Nearest(n, d) ==
    LET q == n \div d
        r == n % d
    IN  IF 2 * r > d \/ (2 * r = d /\ q % 2 = 1) THEN q + 1 ELSE q

\* The unit of the last place of n / d >= Precision, and the float nearest to it,
\* in units of 1 / Precision: a number of so many binary digits and zeros.
IsUlp(u, n, d) ==
    u \in Nat \ {0} /\ n < 2 * u * Precision * d /\ (u = 1 \/ n >= u * Precision * d)
Ulp(n, d) == CHOOSE u \in Binades : IsUlp(u, n, d)
Rounded(n, d) == Ulp(n, d) * Nearest(n, Ulp(n, d) * d)

\* The generator, and what is drawn from it: key_float, from 1 to Draws.
Scramble(key) == (key * Multiplier + 1) % Word
Draw(key) == key \div Low + 1

\* Draws / d, the reciprocal being rounded and Draws a power of two.
JumpProb(d) == Rounded(Draws * Precision, d)

\* Mutant: the leap is counted from b and not from the node after it.
LeapFromB(b, d) == Rounded(b * JumpProb(d), 1) \div Precision

\* The node the walk goes on to from b.
Leap(b, d) == Rounded((b + 1) * JumpProb(d), 1) \div Precision

VARIABLE walk   \* of each call: the generator's key, b and j

WalkInit == \E k \in 0 .. Word - 1 : walk = [n \in Sizes |-> [key |-> k, b |-> -1, j |-> 0]]

\* Mutant: the generator is seeded with the number of nodes at the first turn.
AdvancedBySize(n, w) ==
    LET k == Scramble(IF w.b = -1 THEN w.key + n ELSE w.key)
    IN  [key |-> k, b |-> w.j, j |-> Leap(w.j, Draw(k))]

Advanced(n, w) ==
    LET k == Scramble(w.key)
    IN  [key |-> k, b |-> w.j, j |-> Leap(w.j, Draw(k))]

\* A call ends at once on num_buckets <= 0.
Running(n) == walk[n].j < n

WalkTurn ==
    /\ \E n \in Sizes : Running(n)
    /\ walk' = [n \in Sizes |-> IF Running(n) THEN Advanced(n, walk[n]) ELSE walk[n]]

\* The node that owns the key (AliceCache::owner_node).
Owner(n) == IF n <= 0 THEN 0 ELSE walk[n].b

WalkNext == WalkTurn

WalkSpec == WalkInit /\ [][WalkNext]_walk /\ WF_walk(WalkTurn)

-----------------------------------------------------------------------------
WalkTypeOK == walk \in [Sizes -> [key : 0 .. Word - 1, b : Int, j : Int]]

\* Nodes agree on owners (jump_hash.rs, "when num_buckets changes, only 1/n keys
\* move"): the owner is one of the nodes there are, and two nodes that believe
\* in different numbers of nodes name the same owner, or the one that believes
\* in more names a node that the other does not know of.  No key moves between
\* nodes both know, whatever the floating point arithmetic rounds.
MovesOnlyToNew ==
    \A m, n \in Sizes :
        (0 < m /\ m <= n /\ ~Running(m) /\ ~Running(n)) =>
            /\ Owner(m) \in 0 .. m - 1
            /\ Owner(n) = Owner(m) \/ Owner(n) >= m

\* Each call ends (jump_hash.rs, the while loop): rounding the reciprocal down
\* never lets the walk step on the spot.
WalksEnd == <>(\A n \in Sizes : ~Running(n))

=============================================================================
