------------------------------ MODULE LossyMap ------------------------------
(***************************************************************************)
(* What a cache promises its callers: a map of bounded size that may       *)
(* forget.  A put always admits its key, and it costs at most one other    *)
(* key, and only when the key is new and the map is full.  Every answer is *)
(* the one a plain map would give.  A map of capacity 0 drops every put.   *)
(*                                                                         *)
(* Nothing is said of WHICH key is lost: that is the eviction policy's     *)
(* affair.  CacheShard is shown to implement this module, and AliceCache   *)
(* composes one such map per shard.                                        *)
(***************************************************************************)
EXTENDS BoundedMap

CONSTANT Capacities   \* the capacities a map may be built with

VARIABLES
    store,       \* what the map holds, NoValue where it holds nothing
    capacity,    \* fixed when the map is built
    ret          \* the last completed call and its answer

vars == <<store, capacity, ret>>

Init ==
    /\ store = EmptyMap
    /\ capacity \in Capacities
    /\ ret = [op |-> "new"]

Get(k) ==
    /\ ret' = [op |-> "get", key |-> k, out |-> store[k]]
    /\ UNCHANGED <<store, capacity>>

Put(k, v) ==
    /\ store' \in AfterPut(store, capacity, k, v)
    /\ ret' = [op |-> "put", key |-> k, value |-> v]
    /\ UNCHANGED capacity

Remove(k) ==
    /\ store' = Forget(store, k)
    /\ ret' = [op |-> "remove", key |-> k, out |-> store[k]]
    /\ UNCHANGED capacity

Contains(k) ==
    /\ ret' = [op |-> "contains", key |-> k, out |-> k \in Held(store)]
    /\ UNCHANGED <<store, capacity>>

Size ==
    /\ ret' = [op |-> "len", out |-> HeldCount(store)]
    /\ UNCHANGED <<store, capacity>>

IsEmpty ==
    /\ ret' = [op |-> "is_empty", out |-> Held(store) = {}]
    /\ UNCHANGED <<store, capacity>>

Clear ==
    /\ store' = EmptyMap
    /\ ret' = [op |-> "clear"]
    /\ UNCHANGED capacity

Next ==
    \/ \E k \in Keys : Get(k) \/ Remove(k) \/ Contains(k)
    \/ \E k \in Keys, v \in Values : Put(k, v)
    \/ Size
    \/ IsEmpty
    \/ Clear

Spec == Init /\ [][Next]_vars

=============================================================================
