---------------------------- MODULE MCAliceCache ----------------------------
(***************************************************************************)
(* A small cache for TLC: two threads, two shards, two keys in one shard   *)
(* and one in the other.  The keys of one shard are interchangeable: only  *)
(* the shard is ever taken from a hash here.  A behaviour exercises either *)
(* the single calls or the batches, of up to two calls, on a map with room *)
(* for two of the three keys.                                              *)
(***************************************************************************)
EXTENDS AliceCache, BatchCalls, TLC

CONSTANTS k1, k2, k3, v1, v2

MCHash == k1 :> 0 @@ k2 :> 2 @@ k3 :> 1

VARIABLE part

MCSymmetry ==
    Permutations(Threads) \cup Permutations({k1, k2}) \cup Permutations(Values)

Twins == {k1, k2}
Unvalued(op, kss) == {[op |-> op, keys |-> ks, values |-> <<>>] : ks \in kss}

MCBatches ==
    Unvalued("get", Twins \X Twins) \cup Unvalued("remove", {<<a>> : a \in Twins})
      \cup [op : {"put"}, keys : {<<a, k3>> : a \in Twins}, values : {<<v, v>> : v \in Values}]

MCInit == Init /\ BatchInit /\ part \in {"calls", "batches"}

MCNext ==
    /\ UNCHANGED part
    /\ \/ part = "calls" /\ Next /\ UNCHANGED batchVars
       \/ part = "batches" /\ BatchNext /\ UNCHANGED vars

MCSpec == MCInit /\ [][MCNext]_<<vars, batchVars, part>>

=============================================================================
