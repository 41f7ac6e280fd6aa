----------------------------- MODULE CacheShard -----------------------------
(***************************************************************************)
(* One shard of the cache (shard.rs): a dense slab of entries, a table     *)
(* from key to slot, and a frequency sketch that chooses what to evict.    *)
(* Every operation holds the shard's mutex from its first to its last      *)
(* access, so an operation is one step.                                    *)
(*                                                                         *)
(* Slots are numbered from 0, as in the code: slot i is entries[i + 1].    *)
(* Where the eviction probes land is a choice (the code's xorshift64), as  *)
(* is nothing else.                                                        *)
(***************************************************************************)
EXTENDS CountMin, Sequences, Functions

CONSTANTS
    Keys,
    Values,
    Hash,        \* the cache's hash of each key
    Absent,      \* None: no slot, no value
    Capacities,  \* the capacities a shard may be built with
    IdxSpace,    \* number of slots a table entry can name (2^32)
    AgePeriod,   \* sketch updates between two agings (10000)
    Samples      \* EVICTION_SAMPLES

ASSUME ShardAssumption ==
    /\ Hash \in [Keys -> Hashes]
    /\ Absent \notin Nat \cup Values
    /\ Capacities \subseteq Nat
    /\ IdxSpace \in Nat \ {0}
    /\ AgePeriod \in Nat \ {0}
    /\ Samples \in Nat \ {0}

VARIABLES
    entries,      \* the slab
    lookup,       \* key -> slot
    sketch,
    sampleCount,  \* sketch updates since the last aging
    capacity,
    ret           \* the last completed call and its answer

vars == <<entries, lookup, sketch, sampleCount, capacity, ret>>

Entries == [key : Keys, value : Values, hash : Hashes]
Slots == 0 .. IdxSpace - 1

Init ==
    /\ entries = <<>>
    /\ lookup = [k \in Keys |-> Absent]
    /\ sketch = EmptySketch
    /\ sampleCount = 0
    /\ capacity \in Capacities
    /\ ret = [op |-> "new"]

-----------------------------------------------------------------------------
\* An index as the table keeps it: `as u32`.
AsIdx(i) == i % IdxSpace

Present(k) == lookup[k] # Absent
EntryOf(k) == entries[lookup[k] + 1]

\* Mutant: the entry that fills the hole takes the hash of the one removed.
SwapRemovedKeepsHash(es, i) ==
    [j \in 1 .. Len(es) - 1 |->
        IF j = i + 1 THEN [es[Len(es)] EXCEPT !.hash = es[i + 1].hash] ELSE es[j]]

\* The slab once slot i is given up: its last entry fills the hole.
SwapRemoved(es, i) ==
    [j \in 1 .. Len(es) - 1 |-> IF j = i + 1 THEN es[Len(es)] ELSE es[j]]

\* Mutant: the key of the entry that fills the hole is not told.
UnlistedStale(lk, es, k, i) == [lk EXCEPT ![k] = Absent]

\* The table once key k is dropped and its slot i given up: the key of the
\* entry that fills the hole, if any does, is told its new slot.
Unlisted(lk, es, k, i) ==
    LET dropped == [lk EXCEPT ![k] = Absent]
    IN  IF i # Len(es) - 1
        THEN [dropped EXCEPT ![es[Len(es)].key] = AsIdx(i)]
        ELSE dropped

NewEntry(k, v) == [key |-> k, value |-> v, hash |-> Hash[k]]

\* Slab and table once key k is added at the end.
Pushed(es, k, v) == Append(es, NewEntry(k, v))
Listed(lk, es, k) == [lk EXCEPT ![k] = AsIdx(Len(es))]

\* The slab once the value at slot i is replaced.
Overwritten(es, i, v) == [es EXCEPT ![i + 1].value = v]

\* The table can name every slot of the slab (2^32 slots).
IdxCoversCapacity == \A c \in Capacities : c <= IdxSpace

\* Mutant: the sample counter is not started again.
CountOnce(k) ==
    /\ sketch' = LET added == AddCount(sketch, Hash[k], 1)
                 IN  IF sampleCount + 1 >= AgePeriod THEN Halved(added) ELSE added
    /\ sampleCount' = sampleCount + 1

\* Every get and put counts its key, and every AgePeriod-th halves the sketch.
Count(k) ==
    LET added == AddCount(sketch, Hash[k], 1)
        due == sampleCount + 1 >= AgePeriod
    IN  /\ sketch' = IF due THEN Halved(added) ELSE added
        /\ sampleCount' = IF due THEN 0 ELSE sampleCount + 1

-----------------------------------------------------------------------------
(* Eviction: Samples probes, each anywhere in the slab.                    *)

Probes(es) ==
    {P \in SUBSET (0 .. Len(es) - 1) : P # {} /\ Cardinality(P) <= Samples}

Frequency(es, s, i) == Estimate(s, es[i + 1].hash)

\* The victim is the first probe that reads least, whichever was drawn first;
\* a probe at CounterMax never beats the initial guess, slot 0.
Victims(es, s, P) ==
    IF \A i \in P : Frequency(es, s, i) = CounterMax
    THEN {0}
    ELSE {i \in P : \A j \in P : Frequency(es, s, i) <= Frequency(es, s, j)}

-----------------------------------------------------------------------------
Get(k) ==
    /\ Count(k)
    /\ ret' = [op |-> "get", key |-> k,
               out |-> IF Present(k) THEN EntryOf(k).value ELSE Absent]
    /\ UNCHANGED <<entries, lookup, capacity>>

PutReturns(k, v) ==
    /\ Count(k)
    /\ ret' = [op |-> "put", key |-> k, value |-> v]
    /\ UNCHANGED capacity

\* Mutant: a key that is there already keeps its old value.
PutKeepsOld(k, v) ==
    /\ Present(k)
    /\ PutReturns(k, v)
    /\ UNCHANGED <<entries, lookup>>

PutUpdate(k, v) ==
    /\ Present(k)
    /\ PutReturns(k, v)
    /\ entries' = Overwritten(entries, lookup[k], v)
    /\ UNCHANGED lookup

PutNoRoom(k, v) ==
    /\ ~Present(k)
    /\ capacity = 0
    /\ PutReturns(k, v)
    /\ UNCHANGED <<entries, lookup>>

\* Mutant: one entry too many is let in.
PutOneMore(k, v) ==
    /\ ~Present(k)
    /\ capacity > 0 /\ Len(entries) <= capacity
    /\ PutReturns(k, v)
    /\ lookup' = Listed(lookup, entries, k)
    /\ entries' = Pushed(entries, k, v)

PutNew(k, v) ==
    /\ ~Present(k)
    /\ Len(entries) < capacity
    /\ PutReturns(k, v)
    /\ lookup' = Listed(lookup, entries, k)
    /\ entries' = Pushed(entries, k, v)

PutEvict(k, v) ==
    /\ ~Present(k)
    /\ 0 < capacity /\ capacity <= Len(entries)
    /\ PutReturns(k, v)
    /\ \E P \in Probes(entries) : \E i \in Victims(entries, sketch', P) :
         LET kept == SwapRemoved(entries, i)
             table == Unlisted(lookup, entries, entries[i + 1].key, i)
         IN  /\ lookup' = Listed(table, kept, k)
             /\ entries' = Pushed(kept, k, v)

Put(k, v) == PutUpdate(k, v) \/ PutNoRoom(k, v) \/ PutNew(k, v) \/ PutEvict(k, v)

RemoveHit(k) ==
    /\ Present(k)
    /\ ret' = [op |-> "remove", key |-> k, out |-> EntryOf(k).value]
    /\ lookup' = Unlisted(lookup, entries, k, lookup[k])
    /\ entries' = SwapRemoved(entries, lookup[k])
    /\ UNCHANGED <<sketch, sampleCount, capacity>>

RemoveMiss(k) ==
    /\ ~Present(k)
    /\ ret' = [op |-> "remove", key |-> k, out |-> Absent]
    /\ UNCHANGED <<entries, lookup, sketch, sampleCount, capacity>>

Contains(k) ==
    /\ ret' = [op |-> "contains", key |-> k, out |-> Present(k)]
    /\ UNCHANGED <<entries, lookup, sketch, sampleCount, capacity>>

Size ==
    /\ ret' = [op |-> "len", out |-> Len(entries)]
    /\ UNCHANGED <<entries, lookup, sketch, sampleCount, capacity>>

IsEmpty ==
    /\ ret' = [op |-> "is_empty", out |-> entries = <<>>]
    /\ UNCHANGED <<entries, lookup, sketch, sampleCount, capacity>>

\* clear takes &mut self: it forgets the counts too, but not the capacity.
Clear ==
    /\ entries' = <<>>
    /\ lookup' = [k \in Keys |-> Absent]
    /\ sketch' = EmptySketch
    /\ sampleCount' = 0
    /\ ret' = [op |-> "clear"]
    /\ UNCHANGED capacity

Next ==
    \/ \E k \in Keys : Get(k) \/ RemoveHit(k) \/ RemoveMiss(k) \/ Contains(k)
    \/ \E k \in Keys, v \in Values : Put(k, v)
    \/ Size
    \/ IsEmpty
    \/ Clear

Spec == Init /\ [][Next]_vars

-----------------------------------------------------------------------------
\* The state of a shard keeps its type.
TypeOK ==
    /\ entries \in Seq(Entries)
    /\ lookup \in [Keys -> Slots \cup {Absent}]
    /\ sketch \in Sketches
    /\ sampleCount \in 0 .. AgePeriod - 1
    /\ capacity \in Capacities

\* A slab and a table that name each other: a listed key's slot holds that key,
\* and every entry's key lists that slot.
Matched(es, lk) ==
    /\ \A k \in Keys : lk[k] # Absent =>
         lk[k] \in 0 .. Len(es) - 1 /\ es[lk[k] + 1].key = k
    /\ \A j \in 1 .. Len(es) : lk[es[j].key] = j - 1

\* Slab and table stay matched (shard.rs, swap_remove and sampled_evict) through
\* every removal from the middle, every eviction and re-insertion: no key has
\* two entries, and no slot the table names is out of range.
SlabMatchesLookup == Matched(entries, lookup)

\* An entry is judged by its own key's frequency (shard.rs, Entry.hash): the
\* hash stored with an entry is that of its key wherever swap_remove took it.
HashFollowsKey ==
    \A i \in 1 .. Len(entries) : entries[i].hash = Hash[entries[i].key]

\* The capacity is never exceeded (shard.rs, put): len() stays within it.
WithinCapacity == Len(entries) <= capacity

\* No more than one period's adds beyond the n counted since the last aging.
WithinAging(s, n) ==
    /\ s.total <= AgePeriod + n
    /\ \A i \in Rows : FoldFunction(+, 0, s.table[i]) <= AgePeriod + n

\* Aging keeps up (shard.rs, maybe_age_sketch): whatever the sketch holds, the
\* counters of each row together as well as its total, is bounded by the period,
\* and cannot drift up over a long run, though each aging leaves half of all the
\* earlier ones and gets, puts and clears alternate as they like.
AgingKeepsUp == WithinAging(sketch, sampleCount)

\* The map that a slab and a table stand for.
MapOf(es, lk) ==
    [k \in Keys |-> IF lk[k] # Absent THEN es[lk[k] + 1].value ELSE Absent]

Contents == MapOf(entries, lookup)

Map == INSTANCE LossyMap WITH NoValue <- Absent, store <- Contents

\* A shard is a lossy map (shard.rs, all operations): every answer is that of a
\* plain map, a put admits its key, and it costs at most one other key, and only
\* when the key was new and the shard full.
ImplementsLossyMap == Map!Spec

=============================================================================
