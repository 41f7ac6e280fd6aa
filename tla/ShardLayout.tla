---------------------------- MODULE ShardLayout -----------------------------
(***************************************************************************)
(* The caches that can be built: with `new`, which chooses the number of   *)
(* shards from the capacity, or with a configuration, whose number of      *)
(* shards is lowered to what the capacity allows.                          *)
(***************************************************************************)
EXTENDS Sharding, Functions

CONSTANTS
    CapacitiesAsked,   \* the capacities caches are built with
    ShardsAsked,       \* the configured numbers of shards; others panic
    DefaultCapacity,   \* of CacheConfig::default (10000)
    NoCache            \* before a cache is built

ASSUME LayoutAssumption ==
    /\ CapacitiesAsked \subseteq Nat /\ DefaultCapacity \in Nat
    /\ ShardsAsked \subseteq Nat
    /\ \A n \in ShardsAsked : IsPowerOfTwo(n)

VARIABLE cache   \* the cache that was built: its shape, and the constructor used

\* What of a CacheConfig the layout depends on.
DefaultConfig == [capacity |-> DefaultCapacity, num_shards |-> DefaultShards]

Built(by, capacity, requested) ==
    [by |-> by, capacity |-> capacity,
     num |-> ShardsInUse(capacity, requested),
     room |-> [i \in Shards(ShardsInUse(capacity, requested)) |->
                 ShardCapacity(capacity, ShardsInUse(capacity, requested), i)]]

New(capacity) == cache' = Built("new", capacity, ShardsForCapacity(capacity))

WithConfig(config) == cache' = Built("config", config.capacity, config.num_shards)

\* The Python bindings offer both, the second with a capacity and nothing else
\* of what the layout depends on.
PyWithConfig(capacity) == WithConfig([DefaultConfig EXCEPT !.capacity = capacity])

LayoutInit == cache = NoCache

LayoutNext ==
    /\ cache = NoCache
    /\ \/ WithConfig(DefaultConfig)
       \/ \E config \in [capacity : CapacitiesAsked, num_shards : ShardsAsked] :
            WithConfig(config)
       \/ \E capacity \in CapacitiesAsked : New(capacity) \/ PyWithConfig(capacity)

LayoutSpec == LayoutInit /\ [][LayoutNext]_cache

-----------------------------------------------------------------------------
\* A layout has at least one shard and a room for each.
LayoutTypeOK ==
    cache # NoCache =>
        /\ cache.num \in Nat \ {0}
        /\ cache.room \in [Shards(cache.num) -> Nat]

\* The shard capacities add up to the capacity (cache.rs, with_config_and_seed):
\* lowering the number of shards and spreading the remainder loses no slot and
\* makes none up.
CapacityIsExact ==
    cache # NoCache => FoldFunction(+, 0, cache.room) = cache.capacity

\* No shard is without room (cache.rs, with_config_and_seed: "a shard with no
\* room would drop every key that hashes to it"), however many are asked for; and
\* the mask routes to every one of them, being one less than a power of two.
NoShardStarves ==
    cache # NoCache =>
        /\ cache.capacity > 0 => \A i \in Shards(cache.num) : cache.room[i] > 0
        /\ IsPowerOfTwo(cache.num)

\* A cache built with `new` is not cut into shards too small to use (cache.rs,
\* MIN_CAPACITY_PER_SHARD): each has the minimum, or is all there is.
NewKeepsShardsRoomy ==
    cache # NoCache /\ cache.by = "new" =>
        \A i \in Shards(cache.num) :
            cache.room[i] >= Least(cache.capacity, MinCapacityPerShard)

=============================================================================
