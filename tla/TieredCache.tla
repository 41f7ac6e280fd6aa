---------------------------- MODULE TieredCache -----------------------------
(***************************************************************************)
(* The two-tier store (tiered.rs): entries enter the hot tier, spill to    *)
(* the warm one when it is full, and come back when they are asked for     *)
(* often enough.  Every call takes the store for itself (&mut self), and   *)
(* is one step with all the moves it makes.                                *)
(*                                                                         *)
(* Keys are numbers: the tiers are ordered maps, and among the entries     *)
(* used least the first key is the victim.                                 *)
(***************************************************************************)
EXTENDS BoundedMap

CONSTANTS
    HotCapacities, WarmCapacities, Thresholds,  \* of the configurations
    CountMax,     \* u32::MAX, the largest access_count
    MoveBound     \* bound: on demotions, and on entries taken from the warm tier

ASSUME TieredAssumption ==
    /\ Keys \subseteq Nat
    /\ NoValue \notin [value : Values, count : Nat] \cup Values
    /\ HotCapacities \cup WarmCapacities \subseteq Nat
    /\ CountMax \in Nat \ {0} /\ Thresholds \subseteq 0 .. CountMax
    /\ MoveBound \in Nat

VARIABLES
    config,
    hot, warm,    \* key -> entry, or NoValue
    promotions, demotions, evictions,
    latest,       \* history: the value last put and not removed since
    taken         \* history: entries that put, remove and clear took from warm

vars == <<config, hot, warm, promotions, demotions, evictions, latest, taken>>

Configs == [hot : HotCapacities, warm : WarmCapacities, threshold : Thresholds]

Entry(v, n) == [value |-> v, count |-> n]

Init ==
    /\ config \in Configs
    /\ hot = EmptyMap /\ warm = EmptyMap
    /\ promotions = 0 /\ demotions = 0 /\ evictions = 0
    /\ latest = EmptyMap
    /\ taken = 0

-----------------------------------------------------------------------------
One(b) == IF b THEN 1 ELSE 0

\* One more access; the count is a u32 that wraps in a release build.
Used(tier, k) == [tier EXCEPT ![k].count = (@ + 1) % (CountMax + 1)]

\* min_by_key: the first of the entries with the least count.
LeastUsed(tier) ==
    CHOOSE k \in Held(tier) : \A j \in Held(tier) :
        \/ tier[k].count < tier[j].count
        \/ tier[k].count = tier[j].count /\ k <= j

\* Mutant: the hot tier spills one entry late.
SpillsLate(h, k) == k \notin Held(h) /\ Held(h) # {} /\ HeldCount(h) > config.hot

\* An empty tier has nothing to give: a capacity of 0 lets one entry in.
Spills(h, k) == k \notin Held(h) /\ Held(h) # {} /\ HeldCount(h) >= config.hot

\* Mutant: whether the warm tier has room is not looked at.
EvictsEagerly(w) == Held(w) # {}

Evicts(w) == Held(w) # {} /\ HeldCount(w) >= config.warm

\* Entry e of key k enters the hot tier, where the tiers are h and w by then.  A
\* full hot tier spills its least used entry, which counts from 0 again, and a
\* full warm tier gives up its own for that one.
Insert(h, w, k, e) ==
    IF Spills(h, k)
    THEN LET victim == LeastUsed(h)
             room == IF Evicts(w) THEN Forget(w, LeastUsed(w)) ELSE w
         IN  /\ hot' = Store(Forget(h, victim), k, e)
             /\ warm' = Store(room, victim, Entry(h[victim].value, 0))
             /\ demotions' = demotions + 1
             /\ evictions' = IF Evicts(w) THEN evictions + 1 ELSE evictions
    ELSE /\ hot' = Store(h, k, e)
         /\ warm' = w
         /\ UNCHANGED <<demotions, evictions>>

-----------------------------------------------------------------------------
GetHot(k) ==
    /\ k \in Held(hot)
    /\ hot' = Used(hot, k)
    /\ UNCHANGED <<config, warm, promotions, demotions, evictions, latest, taken>>

\* Mutant: the answer is counted after the threshold is looked at.
OverdueLate(k) == warm[k].count >= config.threshold

Overdue(k) == warm[k].count + 1 >= config.threshold

\* Mutant: a promotion is not counted.
PromoteUncounted(k) ==
    /\ k \in Held(warm) \ Held(hot)
    /\ Overdue(k)
    /\ demotions < MoveBound
    /\ Insert(hot, Forget(warm, k), k, Used(warm, k)[k])
    /\ UNCHANGED <<config, promotions, latest, taken>>

GetPromote(k) ==
    /\ k \in Held(warm) \ Held(hot)
    /\ Overdue(k)
    /\ demotions < MoveBound
    /\ Insert(hot, Forget(warm, k), k, Used(warm, k)[k])
    /\ promotions' = promotions + 1
    /\ UNCHANGED <<config, latest, taken>>

GetWarm(k) ==
    /\ k \in Held(warm) \ Held(hot)
    /\ ~Overdue(k)
    /\ warm' = Used(warm, k)
    /\ UNCHANGED <<config, hot, promotions, demotions, evictions, latest, taken>>

\* Mutant: the entry in the warm tier stays.
PutLeavesWarm(k, v) ==
    /\ demotions < MoveBound /\ taken < MoveBound
    /\ Insert(hot, warm, k, Entry(v, 1))
    /\ latest' = Store(latest, k, v)
    /\ UNCHANGED <<config, promotions, taken>>

Put(k, v) ==
    /\ demotions < MoveBound /\ taken < MoveBound
    /\ Insert(hot, Forget(warm, k), k, Entry(v, 1))
    /\ latest' = Store(latest, k, v)
    /\ taken' = taken + One(k \in Held(warm))
    /\ UNCHANGED <<config, promotions>>

\* `||`: the warm tier is only looked at for a key that is not in the hot one.
Remove(k) ==
    /\ taken < MoveBound
    /\ hot' = Forget(hot, k)
    /\ warm' = IF k \in Held(hot) THEN warm ELSE Forget(warm, k)
    /\ latest' = Forget(latest, k)
    /\ taken' = taken + One(k \in Held(warm) \ Held(hot))
    /\ UNCHANGED <<config, promotions, demotions, evictions>>

\* clear leaves the counters as they are.
Clear ==
    /\ taken + HeldCount(warm) <= MoveBound
    /\ hot' = EmptyMap /\ warm' = EmptyMap
    /\ latest' = EmptyMap
    /\ taken' = taken + HeldCount(warm)
    /\ UNCHANGED <<config, promotions, demotions, evictions>>

Next ==
    \/ \E k \in Keys : GetHot(k) \/ GetPromote(k) \/ GetWarm(k) \/ Remove(k)
    \/ \E k \in Keys, v \in Values : Put(k, v)
    \/ Clear

Spec == Init /\ [][Next]_vars

\* What callers read: len and contains, over both tiers.
Length == HeldCount(hot) + HeldCount(warm)
Contains(k) == k \in Held(hot) \/ k \in Held(warm)

-----------------------------------------------------------------------------
AtLeast1(n) == IF n = 0 THEN 1 ELSE n

Tiers == [Keys -> [value : Values, count : 0 .. CountMax] \cup {NoValue}]

\* The tiers and the counters keep their types.
TypeOK ==
    /\ config \in Configs
    /\ hot \in Tiers /\ warm \in Tiers
    /\ latest \in [Keys -> Values \cup {NoValue}]
    /\ taken \in Nat
    /\ promotions \in Nat /\ demotions \in Nat /\ evictions \in Nat

\* A key is in one tier at most, and with the value last put.
FreshCopies ==
    \A k \in Held(hot) \cup Held(warm) :
        IF k \in Held(hot)
        THEN k \notin Held(warm) /\ hot[k].value = latest[k]
        ELSE warm[k].value = latest[k]

\* One copy, and the last (tiered.rs, put, remove, len and contains): a key is in
\* one tier at most, with the value last put, and in none once it is removed,
\* though the entry may have gone up and down between the tiers in the meantime;
\* so len, which adds the tiers up, counts what contains says is there.
OneFreshCopy ==
    /\ FreshCopies
    /\ Length = Cardinality({k \in Keys : Contains(k)})

\* Tiers stay within bounds (tiered.rs, put, promote_to_hot, spill_one): a
\* promotion that spills and a spill that evicts leave both tiers within their
\* capacity, but that a tier of capacity 0 holds one entry.
TiersBounded ==
    /\ HeldCount(hot) <= AtLeast1(config.hot)
    /\ HeldCount(warm) <= AtLeast1(config.warm)

\* The counters tell the truth (tiered.rs, promotions, demotions, evictions):
\* every entry ever demoted is in the warm tier still, was promoted or evicted
\* again, or was taken out by a put, a remove or a clear.
DemotionsAccounted ==
    demotions = HeldCount(warm) + promotions + evictions + taken

\* No entry is overdue (tiered.rs, get): an entry is never left in the warm tier
\* once it has been asked for as often as the threshold says.
NoneOverdue ==
    \A k \in Held(warm) : warm[k].count < AtLeast1(config.threshold)

\* What a step loses, but by removing it, it had no room for.
NeededLoss ==
    LET before == Held(hot) \cup Held(warm)
        after == Held(hot') \cup Held(warm')
        lost == {k \in before \ after : latest'[k] # NoValue}
    IN  lost # {} =>
          /\ Cardinality(lost) = 1 /\ evictions' = evictions + 1
          /\ after \ before # {}
          /\ HeldCount(hot) >= config.hot /\ HeldCount(warm) >= config.warm

\* Only an eviction loses an entry (tiered.rs, spill_one): a get loses none, even
\* when it promotes with both tiers full; and a put loses at most one, for a key
\* that was in neither tier, and only when both were full.
LosesOnlyByEviction == [][NeededLoss]_vars

=============================================================================
