------------------------------ MODULE Sharding ------------------------------
(***************************************************************************)
(* How a cache divides its capacity over shards (cache.rs): as operators   *)
(* on a capacity and a number of shards.                                   *)
(***************************************************************************)
EXTENDS Naturals

CONSTANTS
    DefaultShards,        \* DEFAULT_SHARDS (256)
    MaxShards,            \* MAX_SHARDS (2^16)
    MinCapacityPerShard   \* MIN_CAPACITY_PER_SHARD (32)

\* A power of two has no odd divisor but 1.
IsPowerOfTwo(n) == n > 0 /\ \A d \in 2 .. n : n % d = 0 => d % 2 = 0

ASSUME ShardingAssumption ==
    /\ DefaultShards \in Nat \ {0} /\ IsPowerOfTwo(DefaultShards)
    /\ MaxShards \in Nat \ {0} /\ IsPowerOfTwo(MaxShards)
    /\ MinCapacityPerShard \in Nat \ {0}

\* The largest power of two up to n: the doubling loop, and 1 << ilog2(n).
FloorPowerOfTwo(n) ==
    CHOOSE p \in 1 .. n : IsPowerOfTwo(p) /\ \A q \in p + 1 .. n : ~IsPowerOfTwo(q)

AtLeast1(n) == IF n = 0 THEN 1 ELSE n
Least(m, n) == IF m <= n THEN m ELSE n

\* Mutant: the default number, whatever the capacity.
AlwaysDefault(capacity) == DefaultShards

\* What `new` and `with_seed` ask for.
ShardsForCapacity(capacity) ==
    LET wanted == capacity \div MinCapacityPerShard
    IN  IF wanted <= 1 THEN 1
        ELSE IF wanted >= DefaultShards THEN DefaultShards
        ELSE FloorPowerOfTwo(wanted)

\* Mutant: the number of shards is not lowered to what fits.
NotLowered(capacity, requested) == Least(requested, MaxShards)

\* What with_config_and_seed makes of the configured number.
ShardsInUse(capacity, requested) ==
    Least(Least(requested, FloorPowerOfTwo(AtLeast1(capacity))), MaxShards)

Shards(num) == 0 .. num - 1

\* Mutant: every shard is rounded up.
RoundedUp(capacity, num, i) ==
    (capacity \div num) + (IF capacity % num > 0 THEN 1 ELSE 0)

\* The first capacity % num shards have one slot more than the others.
ShardCapacity(capacity, num, i) ==
    (capacity \div num) + (IF i < capacity % num THEN 1 ELSE 0)

\* The low bits of the hash choose the shard: `hash & shard_mask`, which is the
\* remainder because num is a power of two.
ShardOfHash(hash, num) == hash % num

=============================================================================
