----------------------------- MODULE AliceCache -----------------------------
(***************************************************************************)
(* The whole cache (cache.rs) under threads that call it at once.  Each    *)
(* key belongs to one shard; a call on a key is one step under that        *)
(* shard's mutex, and the steps after it (the statistics, and the oracle's *)
(* record, which is SharedOracle's affair) are atomic one by one.  len and *)
(* is_empty lock one shard after another; reset stores one counter after   *)
(* another.  clear takes &mut self, so no other call is under way.         *)
(*                                                                         *)
(* A shard is a LossyMap, as CacheShard is shown to be: which key an       *)
(* eviction costs is any key of the shard.                                 *)
(***************************************************************************)
EXTENDS BoundedMap, Sharding

CONSTANTS
    Threads,
    Capacities,   \* the capacities the cache may be built with
    Requested,    \* config.num_shards
    Hash,         \* the hash of each key
    NoCall,       \* of a thread that is not in a call; no answer
    Yes, No,      \* the answers true and false
    StatsBound    \* bound: at so many calls counted, reset comes before others

ASSUME CacheAssumption ==
    /\ Hash \in [Keys -> Nat]
    /\ Capacities \subseteq Nat
    /\ Requested \in Nat \ {0} /\ IsPowerOfTwo(Requested)
    /\ Yes # No

VARIABLES
    shards,     \* the map each shard holds
    capacity,
    stats,
    at,         \* where each thread is: see Places
    call,       \* the call it is in
    answer,     \* its answer, once the call has one
    found,      \* the entries a scan has counted so far
    next,       \* the shard a scan looks at next, the counter reset stores next
    always,     \* history: keys held all through a thread's scan
    ever,       \* history: keys held at some moment of it
    known       \* history: keys held when `inserts` was last stored 0

vars == <<shards, capacity, stats, at, call, answer, found, next, always, ever, known>>

Places == {"idle", "shard", "count", "scan", "reset", "return"}
Counters == <<"hits", "misses", "inserts", "evictions">>  \* in reset's order
StatNames == {Counters[i] : i \in 1 .. 4}

Calls ==
    [op : {"get", "remove", "contains"}, key : Keys]
        \cup [op : {"put"}, key : Keys, value : Values]
        \cup [op : {"len", "is_empty", "reset"}]

Num == ShardsInUse(capacity, Requested)
Last == Num - 1
ShardOf(k) == ShardOfHash(Hash[k], Num)
RoomOf(s) == ShardCapacity(capacity, Num, s)

\* The keys that some shard of ms holds.
HeldBy(ms) == UNION {Held(ms[s]) : s \in DOMAIN ms}
HeldNow == HeldBy(shards)

Init ==
    /\ capacity \in Capacities
    /\ shards = [s \in Shards(Num) |-> EmptyMap]
    /\ stats = [c \in StatNames |-> 0]
    /\ at = [t \in Threads |-> "idle"]
    /\ call = [t \in Threads |-> NoCall]
    /\ answer = [t \in Threads |-> NoCall]
    /\ found = [t \in Threads |-> 0]
    /\ next = [t \in Threads |-> 0]
    /\ always = [t \in Threads |-> {}]
    /\ ever = [t \in Threads |-> {}]
    /\ known = {}

-----------------------------------------------------------------------------
Go(t, place) == at' = [at EXCEPT ![t] = place]
Truth(b) == IF b THEN Yes ELSE No
Tell(t, a) == answer' = [answer EXCEPT ![t] = a]

\* What a change of the shards means for the scans under way.
Witnessed(ms) ==
    /\ always' = [t \in Threads |->
                    IF at[t] = "scan" THEN always[t] \cap HeldBy(ms) ELSE always[t]]
    /\ ever' = [t \in Threads |->
                    IF at[t] = "scan" THEN ever[t] \cup HeldBy(ms) ELSE ever[t]]

SetShard(s, m) ==
    /\ shards' = [shards EXCEPT ![s] = m]
    /\ Witnessed([shards EXCEPT ![s] = m])

\* A call begins.  With capacity 0 a put returns before it hashes its key.
Begin(t, c) ==
    /\ at[t] = "idle"
    /\ c.op = "reset"
         \/ stats["hits"] + stats["misses"] + stats["inserts"] < StatsBound
    /\ call' = [call EXCEPT ![t] = c]
    /\ next' = [next EXCEPT ![t] = 0]
    /\ found' = [found EXCEPT ![t] = 0]
    /\ Go(t, IF c.op \in {"len", "is_empty"} THEN "scan"
             ELSE IF c.op = "reset" THEN "reset" ELSE "shard")
    /\ always' = [always EXCEPT ![t] = HeldNow]
    /\ ever' = [ever EXCEPT ![t] = HeldNow]
    /\ UNCHANGED <<shards, capacity, stats, answer, known>>

\* The thread's next step is on the shard of its call's key.
AtShard(t, op) == at[t] = "shard" /\ call[t].op = op
Mine(t) == shards[ShardOf(call[t].key)]

Get(t) ==
    /\ AtShard(t, "get")
    /\ Tell(t, Mine(t)[call[t].key])
    /\ Go(t, "count")
    /\ UNCHANGED <<shards, capacity, stats, call, found, next, always, ever, known>>

PutNowhere(t) ==
    /\ AtShard(t, "put")
    /\ capacity = 0
    /\ Go(t, "return")
    /\ UNCHANGED <<shards, capacity, stats, call, answer, found, next, always, ever, known>>

\* Mutant: a key that is there already keeps its old value.
PutKeepsOld(t) ==
    LET k == call[t].key
        s == ShardOf(k)
    IN  /\ AtShard(t, "put")
        /\ capacity > 0
        /\ \E m \in IF k \in Held(shards[s]) THEN {shards[s]}
                   ELSE AfterPut(shards[s], RoomOf(s), k, call[t].value) :
             SetShard(s, m)
        /\ Go(t, "count")
        /\ UNCHANGED <<capacity, stats, call, answer, found, next, known>>

\* Mutant: a put is not counted.
PutUncounted(t) ==
    LET k == call[t].key
        s == ShardOf(k)
    IN  /\ AtShard(t, "put")
        /\ capacity > 0
        /\ \E m \in AfterPut(shards[s], RoomOf(s), k, call[t].value) : SetShard(s, m)
        /\ Go(t, "return")
        /\ UNCHANGED <<capacity, stats, call, answer, found, next, known>>

Put(t) ==
    LET k == call[t].key
        s == ShardOf(k)
    IN  /\ AtShard(t, "put")
        /\ capacity > 0
        /\ \E m \in AfterPut(shards[s], RoomOf(s), k, call[t].value) : SetShard(s, m)
        /\ Go(t, "count")
        /\ UNCHANGED <<capacity, stats, call, answer, found, next, known>>

Remove(t) ==
    LET k == call[t].key
    IN  /\ AtShard(t, "remove")
        /\ Tell(t, Mine(t)[k])
        /\ SetShard(ShardOf(k), Forget(Mine(t), k))
        /\ Go(t, "return")
        /\ UNCHANGED <<capacity, stats, call, found, next, known>>

Contains(t) ==
    /\ AtShard(t, "contains")
    /\ Tell(t, Truth(call[t].key \in Held(Mine(t))))
    /\ Go(t, "return")
    /\ UNCHANGED <<shards, capacity, stats, call, found, next, always, ever, known>>

\* The counter a get or a put adds to, after it has left its shard.
CounterOf(t) ==
    IF call[t].op = "put" THEN "inserts"
    ELSE IF answer[t] = NoValue THEN "misses" ELSE "hits"

Count(t) ==
    /\ at[t] = "count"
    /\ stats' = [stats EXCEPT ![CounterOf(t)] = @ + 1]
    /\ Go(t, "return")
    /\ UNCHANGED <<shards, capacity, call, answer, found, next, always, ever, known>>

\* Mutant: each shard's length takes the place of the sum.
ScanLenOverwrites(t) ==
    LET sum == HeldCount(shards[next[t]])
    IN  /\ at[t] = "scan" /\ call[t].op = "len"
        /\ found' = [found EXCEPT ![t] = sum]
        /\ next' = [next EXCEPT ![t] = @ + 1]
        /\ IF next[t] = Last
           THEN Go(t, "return") /\ Tell(t, sum)
           ELSE UNCHANGED <<at, answer>>
        /\ UNCHANGED <<shards, capacity, stats, call, always, ever, known>>

\* One shard of a scan: len adds its length and goes on to the last; is_empty
\* stops at the first shard that holds anything.
ScanLen(t) ==
    LET sum == found[t] + HeldCount(shards[next[t]])
    IN  /\ at[t] = "scan" /\ call[t].op = "len"
        /\ found' = [found EXCEPT ![t] = sum]
        /\ next' = [next EXCEPT ![t] = @ + 1]
        /\ IF next[t] = Last
           THEN Go(t, "return") /\ Tell(t, sum)
           ELSE UNCHANGED <<at, answer>>
        /\ UNCHANGED <<shards, capacity, stats, call, always, ever, known>>

\* Mutant: one empty shard is enough.
ScanAnyEmpty(t) ==
    LET empty == Held(shards[next[t]]) = {}
    IN  /\ at[t] = "scan" /\ call[t].op = "is_empty"
        /\ next' = [next EXCEPT ![t] = @ + 1]
        /\ IF empty \/ next[t] = Last
           THEN Go(t, "return") /\ Tell(t, Truth(empty))
           ELSE UNCHANGED <<at, answer>>
        /\ UNCHANGED <<shards, capacity, stats, call, found, always, ever, known>>

ScanEmpty(t) ==
    LET empty == Held(shards[next[t]]) = {}
    IN  /\ at[t] = "scan" /\ call[t].op = "is_empty"
        /\ next' = [next EXCEPT ![t] = @ + 1]
        /\ IF ~empty \/ next[t] = Last
           THEN Go(t, "return") /\ Tell(t, Truth(empty))
           ELSE UNCHANGED <<at, answer>>
        /\ UNCHANGED <<shards, capacity, stats, call, found, always, ever, known>>

\* One store of stats.reset().
ResetOne(t) ==
    LET name == Counters[next[t] + 1]
    IN  /\ at[t] = "reset"
        /\ stats' = [stats EXCEPT ![name] = 0]
        /\ known' = IF name = "inserts" THEN HeldNow ELSE known
        /\ next' = [next EXCEPT ![t] = @ + 1]
        /\ Go(t, IF next[t] = 3 THEN "return" ELSE "reset")
        /\ UNCHANGED <<shards, capacity, call, answer, found, always, ever>>

\* What is left of a call: for a hit and a put the oracle's record.
Return(t) ==
    /\ at[t] = "return"
    /\ Go(t, "idle")
    /\ call' = [call EXCEPT ![t] = NoCall]
    /\ Tell(t, NoCall)
    /\ found' = [found EXCEPT ![t] = 0]
    /\ next' = [next EXCEPT ![t] = 0]
    /\ always' = [always EXCEPT ![t] = {}]
    /\ ever' = [ever EXCEPT ![t] = {}]
    /\ UNCHANGED <<shards, capacity, stats, known>>

Clear ==
    /\ \A t \in Threads : at[t] = "idle"
    /\ shards' = [s \in Shards(Num) |-> EmptyMap]
    /\ stats' = [c \in StatNames |-> 0]
    /\ known' = {}
    /\ UNCHANGED <<capacity, at, call, answer, found, next, always, ever>>

\* The steps of a call that has begun.
Step(t) ==
    \/ Get(t) \/ PutNowhere(t) \/ Put(t) \/ Remove(t) \/ Contains(t) \/ Count(t)
    \/ ScanLen(t) \/ ScanEmpty(t) \/ ResetOne(t)
    \/ Return(t)

Next ==
    \/ \E t \in Threads : Step(t) \/ \E c \in Calls : Begin(t, c)
    \/ Clear

Spec == Init /\ [][Next]_vars

-----------------------------------------------------------------------------
\* The state of a cache keeps its type.
TypeOK ==
    /\ capacity \in Capacities
    /\ shards \in [Shards(Num) -> [Keys -> Values \cup {NoValue}]]
    /\ stats \in [StatNames -> Nat]
    /\ at \in [Threads -> Places]
    /\ call \in [Threads -> Calls \cup {NoCall}]
    /\ \A t \in Threads :
         /\ at[t] = "scan" => next[t] \in Shards(Num)
         /\ at[t] = "reset" => next[t] \in 0 .. 3

\* A length means something (cache.rs, len): though the shards are counted one
\* after another while others put and remove, the sum is within the capacity,
\* counts every key that was held throughout, and no key that never was.
LenIsBracketed ==
    \A t \in Threads :
        (at[t] = "return" /\ call[t].op = "len") =>
            /\ answer[t] <= capacity
            /\ Cardinality(always[t]) <= answer[t]
            /\ answer[t] <= Cardinality(ever[t])

\* So does an emptiness (cache.rs, is_empty): it is not claimed while some key
\* stayed throughout, nor denied if there was never one; but no moment need
\* have had all the shards empty at once.
EmptyIsBracketed ==
    \A t \in Threads :
        (at[t] = "return" /\ call[t].op = "is_empty") =>
            IF answer[t] = Yes THEN always[t] = {} ELSE ever[t] # {}

\* The inserts account for the contents (cache.rs, put and stats.reset): however
\* puts, their late counting, evictions and a reset in four stores interleave,
\* every key held is one counted, about to be, or there at the last reset.
InsertsCoverContents ==
    Cardinality(HeldNow \ known)
        <= stats["inserts"]
             + Cardinality({t \in Threads : at[t] = "count" /\ call[t].op = "put"})

\* The one map that the shards make up: each key as its own shard has it.
Union == [k \in Keys |-> shards[ShardOf(k)][k]]

Phase(t) ==
    IF at[t] = "idle" THEN "idle"
    ELSE IF at[t] \in {"count", "return"} THEN "answered" ELSE "called"

Linear == INSTANCE LinearCache WITH
    store <- Union,
    room <- capacity \div Num,
    phase <- [t \in Threads |-> Phase(t)]

\* The cache is linearizable (cache.rs, get, put, remove, contains): each call
\* on a key takes effect at once between its invocation and its return, on one
\* map within the capacity, and a put forgets another key only once the cache
\* holds at least the room of its smallest shard.
ImplementsLinearCache == Linear!Spec

\* A cache holds what was put in it, up to its capacity (tests/huge_sizes.rs):
\* a put costs another key only when the cache is full.
LosesOnlyWhenFull ==
    [][\A k \in Keys :
          (k \in HeldNow /\ k \notin HeldBy(shards') /\ HeldBy(shards') \ HeldNow # {})
              => Cardinality(HeldNow) = capacity]_vars

=============================================================================
