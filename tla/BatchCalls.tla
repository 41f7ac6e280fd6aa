----------------------------- MODULE BatchCalls -----------------------------
(***************************************************************************)
(* The batch operations (batch.rs) of threads on one cache.  A batch is a  *)
(* loop of single calls: each call takes effect on the map at once, as     *)
(* AliceCache is shown to implement; a get then counts its hit or miss in  *)
(* the cache's statistics, and batch_get counts it once more on its own.   *)
(* Steps of other threads, resets of the statistics among them, fall       *)
(* anywhere in between.                                                    *)
(***************************************************************************)
EXTENDS BoundedMap, Integers, Sequences, Functions

CONSTANTS
    Callers,      \* the threads
    Capacity,
    Room,         \* below this many keys nothing is forgotten: see LinearCache
    Batches,      \* the batches threads run: [op, keys, values]
    MaxCounted    \* BOUND: no get batch begins when so many gets are counted

\* batch_put panics, before its first put, on other lengths than these.
ASSUME BatchAssumption ==
    /\ IsFiniteSet(Callers)
    /\ Capacity \in Nat /\ Room \in 0 .. Capacity
    /\ \A b \in Batches :
         /\ b.op \in {"get", "put", "remove"}
         /\ b.keys \in Seq(Keys)
         /\ b.values \in Seq(Values)
         /\ b.op = "put" => Len(b.values) = Len(b.keys)

VARIABLES
    store,        \* the map the cache implements
    batchStats,   \* CacheStats: hits and misses, each an atomic of its own
    batch,        \* the batch each thread is in
    place,        \* "idle", "call", "count" or "tally" in a batch, "reset" in CacheStats::reset
    results,      \* the answers of its calls so far
    tally,        \* the hits and misses its batch_get has counted itself
    settled,      \* history: the hits and misses of the BatchGetResults returned,
                  \* less those that resets have taken from batchStats
    seen          \* history: what each key a batch asks for was mapped to since

batchVars == <<store, batchStats, batch, place, results, tally, settled, seen>>

NoBatch == [op |-> "none", keys |-> <<>>, values |-> <<>>]
NoneCounted == [hits |-> 0, misses |-> 0]
NothingSeen == [k \in Keys |-> {}]
Asked(b) == IF b.op = "put" THEN {} ELSE Range(b.keys)
SeenIn(m, b) == [k \in Keys |-> IF k \in Asked(b) THEN {m[k]} ELSE {}]

BatchInit ==
    /\ store = EmptyMap
    /\ batchStats = NoneCounted
    /\ batch = [t \in Callers |-> NoBatch]
    /\ place = [t \in Callers |-> "idle"]
    /\ results = [t \in Callers |-> <<>>]
    /\ tally = [t \in Callers |-> NoneCounted]
    /\ settled = NoneCounted
    /\ seen = [t \in Callers |-> NothingSeen]

-----------------------------------------------------------------------------
BatchBegin(t, b) ==
    /\ place[t] = "idle"
    /\ b.op = "get" => batchStats.hits + batchStats.misses < MaxCounted
    /\ place' = [place EXCEPT ![t] = "call"]
    /\ batch' = [batch EXCEPT ![t] = b]
    /\ seen' = [seen EXCEPT ![t] = SeenIn(store, b)]
    /\ UNCHANGED <<store, batchStats, results, tally, settled>>

\* The key of the thread's next call.
Done(t) == Len(results[t])
Key(t) == batch[t].keys[Done(t) + 1]
Calling(t, op) == place[t] = "call" /\ batch[t].op = op /\ Done(t) < Len(batch[t].keys)

\* Mutant: each value is put before those found already.
ResultFirst(t, v) == results' = [results EXCEPT ![t] = <<v>> \o @]

Result(t, v) == results' = [results EXCEPT ![t] = Append(@, v)]

Stored(m) ==
    /\ store' = m
    /\ seen' = [t \in Callers |->
                  [k \in Keys |-> seen[t][k] \cup SeenIn(m, batch[t])[k]]]

BatchGet(t) ==
    /\ Calling(t, "get")
    /\ Result(t, store[Key(t)])
    /\ place' = [place EXCEPT ![t] = "count"]
    /\ UNCHANGED <<store, batchStats, batch, tally, settled, seen>>

Outcome(t) == IF results[t][Done(t)] = NoValue THEN "misses" ELSE "hits"

\* The fetch_add of AliceCache's get, before it returns to batch_get.
BatchCount(t) ==
    /\ place[t] = "count"
    /\ batchStats' = [batchStats EXCEPT ![Outcome(t)] = @ + 1]
    /\ place' = [place EXCEPT ![t] = "tally"]
    /\ UNCHANGED <<store, batch, results, tally, settled, seen>>

\* Mutant: the batch counts what it has asked for.
TallyAsked(t) ==
    /\ place[t] = "tally"
    /\ tally' = [tally EXCEPT ![t].hits = @ + 1]
    /\ place' = [place EXCEPT ![t] = "call"]
    /\ UNCHANGED <<store, batchStats, batch, results, settled, seen>>

\* The batch's own count.
BatchTally(t) ==
    /\ place[t] = "tally"
    /\ tally' = [tally EXCEPT ![t][Outcome(t)] = @ + 1]
    /\ place' = [place EXCEPT ![t] = "call"]
    /\ UNCHANGED <<store, batchStats, batch, results, settled, seen>>

\* One of the stores of CacheStats::reset.
Wipe(c) ==
    /\ batchStats' = [batchStats EXCEPT ![c] = 0]
    /\ settled' = [settled EXCEPT ![c] = @ - batchStats[c]]
    /\ UNCHANGED <<store, batch, results, tally, seen>>

ResetHits(t) ==
    /\ place[t] = "idle" /\ Wipe("hits")
    /\ place' = [place EXCEPT ![t] = "reset"]

ResetMisses(t) ==
    /\ place[t] = "reset" /\ Wipe("misses")
    /\ place' = [place EXCEPT ![t] = "idle"]

\* A full shard forgets one of its keys although others have room.
Early(k, v) ==
    {Store(Forget(store, lost), k, v) :
        lost \in {held \in Held(store) : k \notin Held(store) /\ HeldCount(store) >= Room}}

BatchPut(t) ==
    /\ Calling(t, "put")
    /\ LET v == batch[t].values[Done(t) + 1]
       IN  \E m \in AfterPut(store, Capacity, Key(t), v) \cup Early(Key(t), v) : Stored(m)
    /\ Result(t, NoValue)
    /\ UNCHANGED <<batchStats, batch, place, tally, settled>>

BatchRemove(t) ==
    /\ Calling(t, "remove")
    /\ Result(t, store[Key(t)])
    /\ Stored(Forget(store, Key(t)))
    /\ UNCHANGED <<batchStats, batch, place, tally, settled>>

\* The loop is over and the batch returns.
BatchEnd(t) ==
    /\ place[t] = "call" /\ Done(t) = Len(batch[t].keys)
    /\ settled' = [c \in {"hits", "misses"} |-> settled[c] + tally[t][c]]
    /\ place' = [place EXCEPT ![t] = "idle"]
    /\ batch' = [batch EXCEPT ![t] = NoBatch]
    /\ results' = [results EXCEPT ![t] = <<>>]
    /\ tally' = [tally EXCEPT ![t] = NoneCounted]
    /\ seen' = [seen EXCEPT ![t] = NothingSeen]
    /\ UNCHANGED <<store, batchStats>>

BatchNext ==
    \E t \in Callers :
        \/ \E b \in Batches : BatchBegin(t, b)
        \/ BatchGet(t) \/ BatchCount(t) \/ BatchTally(t)
        \/ BatchPut(t) \/ BatchRemove(t) \/ BatchEnd(t)
        \/ ResetHits(t) \/ ResetMisses(t)

BatchSpec == BatchInit /\ [][BatchNext]_batchVars

-----------------------------------------------------------------------------
BatchTypeOK ==
    /\ HeldCount(store) <= Capacity
    /\ place \in [Callers -> {"idle", "call", "count", "tally", "reset"}]
    /\ \A t \in Callers : batch[t] \in Batches \cup {NoBatch}
    /\ \A t \in Callers : Done(t) <= Len(batch[t].keys)

\* What the cache's statistics hold of a batch under way: its own tally, and a
\* get that was counted there and not yet here.
Counts(t, c) ==
    tally[t][c] + (IF place[t] = "tally" /\ Outcome(t) = c THEN 1 ELSE 0)

\* No get is lost or counted twice (batch.rs, batch_get; cache.rs, get and
\* CacheStats::reset): each is counted in two places, one after the other, with
\* other threads' gets and resets in between, and still the cache's statistics
\* are those of the batches that returned, less what resets took, and of the
\* batches under way, which lag by the one get each may be about to count.  All
\* gets are those of batches here: a single get is a batch of one.
BatchesAddUp ==
    \A c \in {"hits", "misses"} :
        batchStats[c] = settled[c] + FoldFunction(+, 0, [t \in Callers |-> Counts(t, c)])

\* A batch is no snapshot, but no answer is made up (batch.rs, batch_get and
\* batch_remove, "the same order as keys"): the i-th answer is what the i-th key
\* was mapped to at some moment of the batch, though others put, remove and evict
\* meanwhile and a key may occur twice; and the batch's own tally is of just
\* these answers, whenever it is not about to count the last of them.
AnswersWereTrue ==
    \A t \in Callers : batch[t].op \in {"get", "remove"} =>
        /\ \A n \in 1 .. Done(t) : results[t][n] \in seen[t][batch[t].keys[n]]
        /\ place[t] = "call" /\ batch[t].op = "get" =>
             LET missed == Cardinality({n \in 1 .. Done(t) : results[t][n] = NoValue})
             IN  tally[t].misses = missed /\ tally[t].hits = Done(t) - missed

=============================================================================
