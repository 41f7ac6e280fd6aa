# ALICE-Cache in TLA+

Models of the cache in `src/`, model-checked with TLC and, where a result should hold for every
size, proved with TLAPS. Source references are to `src/src/<file>` unless a path says otherwise.

## 1. The system

ALICE-Cache is an in-process key-value cache. A cache is divided into shards, each a mutex around a
slab of entries, a table and a frequency sketch; around the shards stand statistics and a prefetch
oracle that are updated without a lock.

| component | state | operations | correct when |
|---|---|---|---|
| Count-min sketch (`sketch.rs`) | rows of u8 counters, a u64 total | add, estimate, halve, clear | no hash is read below its count; the error comes only from shared columns; the rows agree |
| Cache shard (`shard.rs`) | slab, table key -> slot, sketch, sample counter, capacity | get, put, remove, contains, len, is_empty, clear; inside: swap_remove, sampled_evict, maybe_age_sketch | slab and table name each other; the capacity holds; answers are a map's; an entry is judged by its own frequency |
| Shard layout (`cache.rs`) | capacity, number of shards, capacity of each | new, with_seed, with_config, with_config_and_seed | the parts add up; no shard is without room; the mask reaches every shard |
| AliceCache (`cache.rs`) | shards, statistics, oracle | get, put, remove, contains, len, is_empty, stats().reset, clear, should_prefetch | calls on keys are linearizable; scans and statistics still mean something |
| Lock-free oracle (`oracle.rs`) | atomic counters, last key, transition counter | record, should_prefetch, reset | no increment is lost to another; no advice without reason; aging keeps up; lock-free |
| Markov oracle (`oracle.rs`) | the same, behind `&mut self` | record, should_prefetch, transition_freq, reset | it forgets nothing before a whole period; its advice is earned since the last reset |
| Tiered storage (`tiered.rs`) | hot and warm maps with access counts, three counters | get (promotes), put (spills), remove, clear | a key is in one tier; capacities hold; the counters account for the moves |
| Invalidation log (`crdt.rs`) | clock, key -> newest invalidation | invalidate, merge, purge_before, is_stale | a log shows the latest of what it stands for, whatever the merges' order; what was invalidated later is stale |
| Compression (`compression.rs`) | the loops' position and output; counters of values and bytes | compress, decompress, the run-length loops, record | decompress undoes compress; reading any entry stays within its size and ends |
| Crypto bridge (`crypto_bridge.rs`) | a key, three counters | encrypt, decrypt, entries_equal; SignedEntry's new and verify | an entry's digest tells which plaintext comes out of it, however fields are exchanged |
| Jump hash (`jump_hash.rs`) | none | jump_hash, jump_hash_bytes, jump_hash_u128, owner_node | nodes that believe in different numbers of nodes agree, or name a node the other does not know of |
| Seeded hashing (`seed.rs`) | a seed's two keys; a hasher's state and length | with_seed, table_for, write, write_u64, finish | keys that differ in one word, or in length, hash differently |
| Batch (`batch.rs`) | results and a tally per batch | batch_get, batch_put, batch_remove | each answer was true during the batch, in the keys' order; the tallies and the cache's statistics are of the same gets |
| Python (`python.rs`) | none | wrappers over AliceCache and batches | as AliceCache, call by call |

**How they interact.** A call on a key hashes it, chooses the shard by the low bits of the hash, and
holds that shard's mutex for the whole of the shard's operation. After the lock is released a get or
a put adds to a statistic and, for a hit and a put, calls the oracle's `record`: two further,
separate effects. `len` and `is_empty` lock the shards one after another. `stats().reset()` stores
four counters in four steps, beside everyone else. `clear` takes `&mut self`, so nobody is inside a
call while it runs; `SharedOracle::reset(&self)` does not, and the type is public, so it can race.

**What is hard.** The swap-remove bookkeeping between slab and table over long call sequences; the
eviction that runs in the middle of a put; aging by a counter that runs beside the sketch's own
total; saturation and rounding; capacities and shard counts at the thresholds; the scans, the
batches and the late statistics; compare-and-swap loops, halvings and resets that overlap cell by
cell; moves between tiers in the middle of a call; logs merged late, twice or out of order; runs at
the limit of their two length bytes; and a floating-point walk that nodes must take alike.
`PROJECT.json` lists these hazards at their lines.

## 2. Modules

```
CountMin ----- CountMinSketch ------------- MCCountMinSketch (also MarkovOracle)
   |
   +----- CacheShard                               BoundedMap -- LossyMap  (implemented by CacheShard)
   |                                                   |     \
   |      Sharding ---- ShardLayout                    |      LinearCache  (implemented by AliceCache)
   |          \                                        |
   |           AliceCache -----------------------------+      MCAliceCache (also BatchCalls)
   |                                                   |
   |                                                   +---- BatchCalls
   +----- Transitions                                  +---- TieredCache
             |---- SharedOracle
             +---- MarkovOracle

InvalidationLog
JumpHash, SeededHash, Compression, CryptoCache       MCAlgorithms runs these and ShardLayout

theorems:   Sketches_proofs     CountMinSketch, MarkovOracle
            CacheShard_proofs   CacheShard
            AliceCache_proofs   AliceCache, ShardLayout, BatchCalls
            SharedOracle_proofs SharedOracle
            TieredCache_proofs  TieredCache
            Nodes_proofs        JumpHash, InvalidationLog, SeededHash
            Values_proofs       Compression, CryptoCache
            Counting            numbers, finite sets and sums: no model of the code
```

`MC<module>` gives a module its instance for TLC; `<module>_proofs` holds its theorems, and those of
the modules beside it.
Three MC modules run several components in one go: a variable `part` is chosen at the start and never
changes, and a behaviour takes the steps of that part only, while the others' variables keep still.
For this, and for theorems about several components in one module, the second of two components that
run or are proved together has definitions of its own name: `OracleSpec`, `WalkSpec`, `LayoutSpec`,
`BatchSpec`, `CryptoSpec`, `HashSpec`, with their `Init`, `Next` and `TypeOK`. `PowersOfTwo` has the
powers that words and floats are made of, as a function.

**`CountMin`** holds the sketch as operators on its value: `Index`, `AddCount`, `Halved`,
`Estimate`. A hash is a word of `Word` values and the column is computed as the code does, with the
word, the width, the golden-ratio constant and the counters scaled down. `CacheShard` and
the oracles (whose `index` is the same function) use it; `Transitions` has what the two oracles share.

**`CountMinSketch`** drives the sketch by any sequence of `Add`, `Halve` and `Clear`, beside a
history variable `own`: one dedicated counter per hash, of the same width and aged alike. That is
the count that "never underestimates" can be about once counters saturate and are halved.

**`CacheShard`** has the fields of `ShardInner` (`entries`, `lookup`, `sketch`, `sampleCount`) and
`capacity`. Each operation is one action, because it holds the mutex throughout, and contains
everything the operation does: a put that evicts counts its key, possibly halves the sketch, chooses
a victim from the halved sketch, swap-removes it, tells the moved key's slot, and pushes the new
entry. `put` and `remove` are split by the code's branches. The xorshift generator is a free choice
of the probed slots; the rule that picks the victim among them, its tie-break and the fall-back to
slot 0 included, is the code's. Slots are stored modulo `IdxSpace`, as `as u32` stores them. `ret`
is the last call with its answer.

**`LossyMap`** is what a shard promises: a plain map whose put loses at most one other key, and only
when the key is new and the map full. `Map` in `CacheShard` reads the map off slab and table.

**`Sharding`** and **`ShardLayout`** hold the arithmetic of the constructors and the machine that
builds caches with them. **`AliceCache`** uses the same operators.

**`AliceCache`** is the whole cache under threads. A call is a sequence of steps (`at`): one step at
the shard, one that counts, one per shard for a scan, one per counter for a reset. Shards are
`BoundedMap` values with `AfterPut`, i.e. lossy maps, which `CacheShard` is shown to implement; that
keeps slab and sketch out of the interleavings. **`LinearCache`** is its specification: every call
on a key takes effect in one step between invocation and return, on one map.

**`SharedOracle`** has one action per access to an atomic. `fetch_update` is a load followed by
compare-and-swaps, each of which installs the update or takes the value it found and retries. The
transition counter is kept modulo the aging period, the only way it is used. History variables:
`noted` (transitions seen), `owed` (those that must still be in the table), `clean` (threads
whose add met no halving or reset), `recent` and `older`: the columns
that a reset may leave behind, because their transitions were being added when it began or were seen
since, and whether the last key was accessed before it began.

**`MarkovOracle`** is the oracle of one thread, one step per operation, on `CountMin`'s table. It
counts a transition before it asks whether to age (`SharedOracle` asks about the value before), and
no last key is a value of its own. `owned` is a dedicated counter per pair of keys, halved whenever
`since`, the observer's count of transitions, completes a period; `noted` counts the transitions per
column since the last reset.

**`BatchCalls`** has the callers' batches as loops of single calls on the map that `LinearCache`
describes, whose put may forget a key from `Room` keys on, because a shard may be full when others
are not (`Early`), and must from `Capacity` on. A get is counted in the cache's statistics in a step of
its own (`BatchCount`) and in the batch's tally in the next one (`BatchTally`), and the statistics may be
reset at any time, hits first. `seen` collects what each key of a batch was mapped to while the batch
ran, and `settled` is what the returned batches have tallied less what resets took. A `batch_put` of unequal lengths, which
panics before its first put, is left out.

**`JumpHash`** takes the calls that nodes make for one hash together, one turn of the loop a step,
each with the number of nodes it believes in. The generator, the draw of its high bits and both
roundings of the floating point (of the reciprocal and of the product) are the code's, at widths that
are constants. A small width keeps what a float could do wrong here: a reciprocal that is rounded down.

**`SeededHash`** feeds two hashers of one seeded function side by side. A word is absorbed by xor, an
odd multiplication and a rotation; bytes are cut into words, the last padded with zeros; the length
is folded in at the end. `apart` is in how many words the two differ. The same bytes go through
FNV-1a, the hash by which a byte string is given an owner. `Xor` is defined by the bits of its
operands, so that what is shown does not depend on the width of a word.

**`Compression`** has one action per branch of the packing and of the reading loop. It starts either
from a value, which is packed, read back and counted, or from an entry with any data and any size:
`CompressedEntry`'s fields are public. Byte strings stay byte strings, since what the loops write of
them is the point; a byte has `Base` values, one of them the marker.

**`CryptoCache`** takes the cipher and the hash of the other crate at their word: `open` undoes
`seal` under the same key and no other, and digests tell plaintexts apart. What is handed to
`decrypt` is any ciphertext that was made, or an altered one, with any digest. `opened` is a history of
what was decrypted. Both public fields of a signed entry may be replaced (`Change`).

**`TieredCache`** has the fields of `TieredCache`. A call is one step with every move it makes: a get
that promotes takes its entry out of the warm tier, spills the least used entry of a full hot tier
and may evict the least used of the warm one. Keys are numbers, because the tiers are ordered maps
and the first of the least used keys is the victim. `latest` is the value last put and `taken` the
number of entries that calls took from the warm tier. Counters are changed where the code changes
them, and `clear` leaves them. The access count is a u32 that wraps at `CountMax`, as it does in a
build without overflow checks; a build with them panics there.

**`InvalidationLog`** has one log and clock per node. The network is a set of copies: any of them may
be merged by any node, late, again, after a newer one, or never. `known` is the set of invalidations
a log stands for, which merging joins and purging cuts; the code keeps one entry per key instead.
One insertion into a cache is followed: `heard` holds the nodes that have merged something from
after it, `later` the invalidations of its key by one of these. `is_stale` is judged against them.

A definition named as a mutant in a comment is a plausible slip in the operator that follows it; it
is what shows that each property can fail.

## 3. Runs

| run | instance | what it shows |
|---|---|---|
| `shard` | 4 keys, 2 values, capacity 0, 1 or 3, a 2x2 sketch, counters to 2, aging every 3 | slab, table and hashes stay matched, the capacity holds, the sketch ages, and the shard implements `LossyMap` |
| `sketch` | words of 4 values, 2x2, counters to 5, total to 14; the Markov oracle over 3 keys, threshold 3, aging every 4 | no underestimate, an error bounded by the column's company, rows that all agree; transitions are known for a period and advice is earned |
| `sketch_depth` | the same | *violated*: the depth separates nothing |
| `algorithms` | capacities and requests around every threshold, from each constructor; two hashers of 4 functions; the owners of every hash for -1 to 9 nodes; bytes of 3 values, runs to 8, values and foreign entries up to 23 bytes; 2 caches, keys and plaintexts | the division of the capacity is exact and starves no shard; keys that differ a little never collide; keys move only to new nodes and the walk ends; packing is undone, reading stays in bounds and ends; entries that were decrypted compare equal just when their plaintexts are |
| `verify` | the same | *violated*: a signed entry whose data was not modified does not verify |
| `cache` | 2 threads, 3 keys, 2 values, 2 shards with room 1 each, and capacity 0; get and put batches of two calls and removes of one, on a map with room for 2, which may forget from 1 on | the cache implements `LinearCache`; scans are bracketed; inserts cover the contents; each answer of a batch was true during it, and statistics and tallies differ by no more than the counts under way and the resets |
| `cache_full` | the same | *violated*: a key is lost below the capacity |
| `oracle` | 2 threads, one of which may reset, hashes 0 and 2, a 2x2 table, counters to 3, aging every 2 | no lost increment, no unfounded advice, aging keeps up, a reset forgets, lock-free |
| `oracle_alone` | 1 thread, aging every 4, nobody resets | *violated*: a lone thread's first transition is lost |
| `tiered` | 4 keys, 2 values, each capacity 0 to 2, threshold 0 or 3, counts that wrap after 3 | one fresh copy of a key, counted once by len, bounded tiers, counters that account for every move, nothing overdue, nothing lost but by a needed eviction |
| `log` | 2 nodes, 2 keys, counters to 3, 2 copies sent | a log shows the latest of what it stands for; what was invalidated after its insertion is stale, what was only invalidated before is not |
| `log_tie` | the same | *violated*: two nodes that know the same keep different entries |

**Bounds and why they are enough.**
*Shard.* With capacity 3 a removal can hit the first, the middle and the last slot, and four keys
make every eviction a choice among others; two counters a row let keys share a column and not share
one; with `CounterMax` 2 and `AgePeriod` 3 counters saturate and are halved within a few calls, so
the all-saturated eviction of slot 0 happens. `IdxSpace` 4 exceeds every capacity: the wrap of the
32-bit slot is outside this run (and outside the theorems, which assume `IdxCoversCapacity`).
*Sketch.* Two hashes per column, counters that saturate at 5 and a total that saturates at 14,
above a row of full counters as 2^64 is above 256 * 255.
*Markov oracle.* Its three keys give nine pairs over four hashes, so pairs share columns; the key
with hash 0 is among them. With an aging every 4 and a threshold of 3, advice is given before, at and
after an aging. `total` is kept modulo the period, the only way it is used.
*Layout.* Constants scaled to default 8, maximum 16, minimum 4 per shard; capacities from 0 past
every threshold.
*Seeded hashing.* A word is two bytes of two bits, with the code's shifts and odd factors scaled to
it. Two seeds give four functions (a state and its tables'); six pieces of up to two words and two
writes reach a difference in the first, the last and the padded word, and in the length alone.
*Jump hash.* Every hash of 6 bits, 3 of which are drawn, floats of 6 digits, and -1 to 9 nodes: past
`Draws` nodes too. `JumpAssumption`, which TLC evaluates, says that a number of nodes is a float
and that the largest float is beyond what is computed; for the code's 53 digits, exponents up to
1023, 31 drawn bits and i32 nodes the same holds.
*Cache.* `StatsBound` 1: once a call is counted, only resets begin until the counters are back at 0;
calls already under way go on, so counts of 2 occur. It bounds the counters, not the interleavings:
two calls of any kind overlap in every way. `MaxCounted` 1 does the same for the gets of
batches: both threads may be inside one, and a reset makes room for more. A get batch is of two calls, on
one key twice or on two, and other threads' batches and resets fall between all of their steps. Two of
the three keys share a shard.
`SYMMETRY` permutes values, the two threads, and the two keys that share a shard (the shard is all
that is taken from a hash here; in the shard's own run only values are permuted). No property
names one of the permuted constants, and no liveness is checked under symmetry.
*Oracle.* `Inputs` has the hash 0, which the code takes for "no last key". `NotedBound` caps the
history at the threshold, above which it tells nothing more.
*Tiers.* With 2 and 2 a promotion can find both tiers full, both ties of the victim's choice occur,
and four keys leave one outside; 0 is the edge where the tests `len >= capacity` find an empty tier.
`CountMax` 3 is the threshold, so that counts reach it and wrap within a few gets. `MoveBound` 4 caps
demotions and entries taken from warm, enough for an entry to go down, up and down again.
*Log.* Two copies in the network are what reordering and a merge of the older after the newer need;
each may be merged any number of times. Counters to 3 allow two nodes to tie, and one to overtake.
The timestamp is in the clock, but no operation ever sets it, so it stays 0 (only a test does,
through the private field); the order of clocks is modelled whole. Nodes and keys are symmetric: the
code compares neither.
*Values.* `Base` 3 makes a run at most 8 bytes, where the code's 256 makes it 65535 (two length
bytes); all values up to 4 bytes, and runs of 5, 8, 9 and 17 with something before and behind, are on
both sides of one and of two full runs. The foreign entries hold every run length, 0 included, in
front of up to two more bytes. `MaxValues` 1 and `MaxCalls` 1 bound what is counted.

**Where the system may stop.** `algorithms` and `verify` do not check for deadlock: a cache has been
built, the keys have written, the walks have ended or the values been read back, and callers owe
nothing more. All other runs do check it.

**Fairness.** `SharedOracle` assumes weak fairness of each thread's steps inside a call.
None of those steps waits for another thread - there is no lock and a failed compare-and-swap is a
step - so a thread that the operating system schedules takes them. Beginning a call is not fair.
`LockFree` says that calls keep ending unless all end for good; that one call always ends is not
claimed and is false. `JumpHash` and `Compression` assume weak fairness of a turn of their loops: they are
sequential functions that run to their end once called (`WalksEnd`, `CallsEnd`). Which value is
packed next is not fair.

**What disagrees with the documentation** (the five *violated* runs):

1. `sketch.rs:94` promises a "different hash for each row". Row `i` adds `i * GOLDEN` and keeps the
   low bits, so a row is the first one rotated: hashes that collide once collide everywhere.
2. `README.md:341` of the crate says transitions may be lost "under extreme contention".
   `oracle.rs:202` tests the value before the increment, and 0 is a multiple of 50000: the first
   transition after `new` or `reset` is halved back to 0, with one thread and no contention.
3. `tests/huge_sizes.rs:3` says a cache holds what was put in it, up to its capacity. A shard evicts
   when its own part is used up. What does hold is in `LinearCache`: nothing is lost below the room
   of the smallest shard.
4. `crdt.rs:83` says that merging is idempotent and commutative. At equal clocks each log keeps its
   own entry, so two nodes that invalidate a key at once never agree on the node. The clocks agree,
   which is all that `is_stale` looks at: `LogShowsLatest` is what does hold.
5. `crypto_bridge.rs:33` says that `verify` "returns `true` if the data has not been modified since
   creation". It compares two public fields: with the hash replaced it is false although the data is
   untouched, with both replaced by a matching pair it is true although the data is not.

Met while modelling, without a run: a tier of capacity 0 holds one entry (`tiered.rs:125` tests an
empty tier and inserts), which `TiersBounded` states. An integrity failure that the cipher reports is
not counted in `integrity_failures` (`crypto_bridge.rs:102`): `DecryptRefused` changes nothing. The
transition from a key whose hash is 0 is not recorded (`oracle.rs:196`), even by a lone thread; the
histories of `SharedOracle` begin after that test, so none of its properties tells.

## 4. Proofs

All theorems are checked for every value of the constants, under the modules' assumptions.

* **`Counting`** is the library under the others. Induction is over a *set* of values (`SetInduction`,
  `NatInduct`), because the library's theorems take the claim as an operator, which the provers cannot
  instantiate; a claim becomes the set of what it holds of. A fold over a finite set is shown equal to
  the number of cells under the function's graph (`SumIsSize`), so that what is needed of sums -
  monotone, one term changed, all terms halved - are facts about subsets and bijections. `ModShift`,
  `ModCancel` and `ModMod` are about remainders, `Halvings` about repeated halving.
* **`Sketches_proofs`**: an estimate is one of the hash's counters and below none of them.
  `RowsCollideAlike`: if the width divides the word, two hashes that share a column in one row share it
  in every row. `ShardIsBlind`: if the width divides the number of shards as well (256 shards or more,
  256 columns), all keys of one shard share their columns. `NoUnderestimate` is from the inductive
  invariant `SketchInv` = type /\ `CellsDominate` - *each* counter of a hash dominates the dedicated
  one. The estimate, a minimum, says too little about the other rows to be inductive by itself.
  `DepthIsIdle`: all rows read alike, which follows along the steps from `RowsCollideAlike`.
  `ErrorIsSharing` is inductive beside the types, but by arithmetic: when a dedicated counter saturates
  it alone is as much as the shared one can hold, and halving loses one half per dedicated counter
  where the shared one may lose none, so that the allowance of one per further hash is what a halving
  reproduces. `TransitionsKnown` and `AdviceEarned` (the Markov oracle) are from the agreement of table,
  last key and counter with the history, in every row (`PairsDominate`) and column (`CellsEarned`).
* **`CacheShard_proofs`**: `Invariance` of the conjunction of `TypeOK`, `SlabMatchesLookup`,
  `HashFollowsKey`, `WithinCapacity` and `AgingKeepsUp`, under `IdxCoversCapacity` (a slot number is
  not cut off by its 32 bits). `TypeOK` is not inductive alone: that `lookup` names a slot in range is
  what keeps `EntryOf` typed. That aging keeps up is shown of the total and of every
  row's sum (`WithinAging`): an add raises each by one at most, and a halving brings each from two periods
  at most to one, when the sample counter starts again. The steps are proved operator by operator:
  `SwapRemoved` and `Unlisted`
  keep slab and table matched, and so do `Pushed` and `Listed` on a key that is not there; a put that
  evicts is the one after the other. `Refinement` shows every step to be a step of `LossyMap`, by
  computing `MapOf` after each of these operators: `Unlisted` forgets exactly one key, `Listed` stores
  exactly one, and the slab's length is the number of keys held (a bijection from slots to listed
  keys), which is what makes `Len(entries)` comparable with the abstract map's `HeldCount`.
* **`AliceCache_proofs`**: *the cache.* `AliceInv` keeps every shard to its own keys and its room, and
  knows of a scan that is half done what its answer will be worth: of the shards behind it, it has
  counted at least the keys held throughout and at most those held at some time, or that these shards
  have room for. `LenBracketed` and `EmptyBracketed` are that at the last shard. `InsertsCover` counts
  the puts that have stored and not yet counted; `known` holds the keys that were held when a reset
  last stored 0, for which no count is left.
  `CacheIsLinear` is the refinement of `LinearCache`: shards are disjoint, so that their union is a map;
  a shard's step is the abstract call's one effect, all others stutter; and when a full shard forgets,
  the whole cache holds at least as many keys as the smallest shard has room for.
  *The layout.* The quotient and remainder by which capacities are dealt out sum to the capacity
  (`LayoutIsExact`); the number of shards is a power of two not above the request, the limit and the
  capacity, so that each has room (`LayoutFeedsAll`) and, from `new`, enough (`LayoutIsRoomy`).
  *The batches.* `BatchesAnswerTruly`: the map's present value of each key asked for is among those
  `seen`, so the next answer is too. `BatchesAccount`: what is counted is what has settled plus
  what the batches under way have tallied, or have counted and not yet tallied (`Counts`), a sum over all
  callers that one step changes in one term; a reset takes from both sides what it finds.
* **`SharedOracle_proofs`**: four arguments, each with an invariant beside the types.
  `AdviceHasReason`: a transition is noted before it is added, so a counter *with* the adds still to
  reach it is no greater than what was noted (`AllNoted`). `NoIncrementIsLost`: what is owed is in a
  counter after all the halvings that have yet to reach it, and a clean add is beside no halving or reset
  and so has swapped where it loaded (`Clean`). `AgingIsNotOutrun`: the bound must hold for *every* set
  of the halvings under way, the counters being taken as those will leave them: then a step of one
  halver changes no prospect, and the one that is through leaves a bound that already was one of them.
  `ResetsForget`: what a forgotten column holds is ahead of a thread that clears; nothing else raises it,
  since the column of every add under way is recent (`AddsAreRecent`) and a last key older than a reset is
  there only while some reset has yet to clear it (`KeyIsRecent`).
* **`TieredCache_proofs`**: `Invariance` of type, one copy, bounds, accounting and promptness
  together. Half of it is arithmetic on cardinalities: a full tier's spill takes one entry out
  before the new one enters, so that the sizes, `demotions`, `promotions`, `evictions` and `taken` move
  in step. `LEMMA VictimIsHeld` shows that there is always a least used key, by well-foundedness of
  the counts. `OnlyEvictionLoses` is the action property: from the invariant, a step in which a key
  disappears is an evicting one, or takes the key itself.
  `TiersAreOneMap` is the abstract view: what gets answer, over both tiers, is one map (`Contents`)
  limited to the capacities' sum, on which each operation does what `LossyMap`'s does: gets change
  nothing, `remove` forgets its key, `clear` all, and a put leaves one of the maps of `AfterPut`. A put
  that loses no key had room, because both tiers are within bounds after it; one that loses a key has
  spilled and evicted, so both tiers were full. `MapStep` held of the run `tiered` before it was proved.
* **`Nodes_proofs`**: *Owners.* `JumpMovesOnlyToNew`. Two calls for one hash take the same walk until the
  shorter one ends, so the walks agree in every turn, whatever leaps are drawn as long as
  they go forward. That they do (`LeapsForward`) is the floating-point part: a reciprocal rounded to
  nearest is at least 1, and a product with it is not rounded below its other factor. Why floats do
  this is proved as well, from the widths alone: what is below the largest float has a binade
  (`UlpExists`), and where a product's last place is worth less than its factor, the factor, having no
  more digits than a float, is a whole number of last places (`ProductIsFloat`). `WalksGoForward`, the
  action property behind it, is the safety half of `WalksEnd`.
  *Logs.* `LogCorrect` (`LogShowsLatest`) is inductive only beside the clocks: the next
  invalidation of a node is the latest it knows of because its clock is as late as all that its log
  stands for (`StandsFor`), and a merge keeps that because the copies on the way are as good as the
  logs they were made of. `StaleCorrect` and `FreshCorrect` add that whoever has heard of the insertion
  has a clock as late. For any number of nodes and keys, and every bound on counters and copies.
  *Hashes.* `HashTellsDifference` (`DifferenceTells`), for words and bytes of any width. Every step of the
  hash that takes a word takes no two words to one. Words are their bits (`BitsTell`), so an exclusive
  or can be undone; a shift-and-xor leaves the top bits as they were, and these give those below back
  (`ShiftedTells`); an odd factor cancels modulo a power of two (`OddCancels`); a rotation keeps quotient
  and remainder (`RotatedTells`). What is absorbed is therefore a chain of one-to-one steps: one word
  that differs makes the states differ, equal words after it keep them so (`AbsorbedTell`), and padding
  differs in the length alone (`FinishTells`). The folds over words and bytes are followed step by step,
  since a fold over a sequence has one solution (`FoldRuns`). The inductive invariant `HashInv` is
  the type and `Tells`: no difference in the words absorbed, no difference in the states; one, and they
  differ; nothing is claimed of two or more, for which it is false. `SeedsTell`: no two seeds make one
  state. (That a cache's function is never that of its own tables, as `seed.rs:22` wants for every
  seed, does not follow from the form of the constants; the theorem does not claim it.)
* **`Values_proofs`**: `Bounded`: for any entry whatsoever, reading writes no more than the
  entry's size, hence the `usize` subtraction of the room left never goes below zero. `ReadsBack`: decompression gives back what was compressed, for values of
  any length. The packed form and the value have corresponding cuts: positions in both between which
  lies one piece, a run with its two length bytes or a byte that stands for itself. Packing adds a cut a
  turn at the end; reading is always at one, and what follows a cut is a piece (`Faithful`). No
  induction over the value is needed: the loop's steps are the induction. `LoopsAdvance` is the safety half
  of `CallsEnd`: a turn of either loop takes a byte at least and none behind the end, or is the last, a
  run of length 0 and a truncated entry included. `EqualOpensAlike` is from
  the form of whatever was decrypted (`CryptoInv`): its digest is its plaintext's.

**What is assumed** is what the modules' assumptions say. The less obvious: the word is a multiple of
the width, both being powers of two; a table can index its shard's slots (`IdxCoversCapacity`);
threads are finitely many; a digest is different for different plaintexts; a float holds every number
of nodes exactly; the multipliers of the hashes are odd; and `Room <= Capacity` for batches, where the
smallest shard is at most the whole cache. TLC evaluates each assumption at the constants of the runs.

**Only model-checked**, being out of the prover's reach: `LockFree`, `WalksEnd` and `CallsEnd`, which are
liveness under fairness. Every invariant and every action property that a run checks has a
theorem. No module declares a RECURSIVE operator.

## 5. What is abstracted, and not modelled

* Keys and values are model values, a key's hash a constant; `SeededHash` models how the hash is
  computed. User code under the mutex (`Clone`, `Eq`, `Hash`, `Drop`) is taken to return: what a
  panic in it leaves behind (`shard.rs:194`) is not modelled.
* The xorshift generator's probes are free choices of slots.
* `Relaxed` ordering: steps interleave in one order. That a thread may see two locations change in
  another order than they did is left out. `ResetForgets` leans on that, since it relates the last key
  to the table; the oracle's other properties are about single locations or about counts that only grow.
* Statistics are natural numbers; a u64 does not overflow in a run of the program. The `evictions`
  counter exists, is reset and exported, and nothing adds to it; `hit_rate`, a quotient of two
  loads, changes nothing. The u32 counter of the log's clocks, which is unchecked in the code, is bounded
  below its overflow by `CounterBound` (any bound, in the theorems).
* `AliceCache` leaves the oracle's `record` out of its steps: it touches no other state, and
  `SharedOracle` models it under every interleaving.
* In compression, `level` is read by nothing and the ratios are computed for display; the helper
  that folds a u128 for `jump_hash_u128` is left out.

**Not modelled**: of the Python bindings everything but the constructors (each method is one call of
`AliceCache` or a batch); the analytics bridge, which is commented out of `lib.rs`; pre-allocation
and memory accounting; tests, benches, fuzz targets and examples, which were read for what they
promise.

## 6. What is left

* Layout, hashing and one shard in one machine: with 256 shards or more frequencies cannot differ
  within a shard. It is proved as a fact about the two functions (`ShardIsBlind`); what it does to
  evictions is not run.
* The 32-bit slot past `IdxCoversCapacity`, a key whose clone panics in the middle of a put, and the
  log's clocks at the maximum of their counter: there the properties do not hold of the code, and the
  models stop short of it.
