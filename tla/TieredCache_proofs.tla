-------------------------- MODULE TieredCache_proofs --------------------------
(***************************************************************************)
(* Proofs about the two-tier store for all keys, values and              *)
(* configurations.  Both tiers are finite though the keys need not be, and *)
(* the moves of one call, an eviction, a spill and the insertion, are      *)
(* taken together: `InsertStep` says what they leave of the two tiers.     *)
(***************************************************************************)
EXTENDS TieredCache, FiniteSetTheorems, TLAPS

EntrySet == [value : Values, count : 0 .. CountMax]

\* A tier that holds finitely many entries.
Finite(t) == t \in Tiers /\ IsFiniteSet(Held(t))

-----------------------------------------------------------------------------
(* Tiers as maps.                                                          *)

LEMMA EntryType ==
    ASSUME NEW t \in Tiers, NEW k \in Held(t)
    PROVE  /\ k \in Keys /\ k \in Nat
           /\ t[k] \in EntrySet /\ t[k].value \in Values /\ t[k].count \in 0 .. CountMax
           /\ t[k] # NoValue
  BY TieredAssumption DEF Tiers, Held, EntrySet

LEMMA NoEntryIsNoValue ==
    ASSUME NEW e \in EntrySet
    PROVE  e # NoValue
<1>1. e \in [value : Values, count : Nat]
  BY TieredAssumption DEF EntrySet
<1> QED
  BY <1>1, TieredAssumption

LEMMA EmptyTier == Finite(EmptyMap) /\ Held(EmptyMap) = {} /\ HeldCount(EmptyMap) = 0
<1>1. EmptyMap \in Tiers /\ Held(EmptyMap) = {}
  BY DEF EmptyMap, Tiers, Held
<1> QED
  BY <1>1, FS_EmptySet DEF Finite, HeldCount

LEMMA CountType ==
    ASSUME NEW t, Finite(t)
    PROVE  HeldCount(t) \in Nat /\ (HeldCount(t) = 0 <=> Held(t) = {})
  BY FS_CardinalityType, FS_EmptySet DEF Finite, HeldCount

LEMMA ForgetStep ==
    ASSUME NEW t, Finite(t), NEW k \in Keys
    PROVE  /\ Finite(Forget(t, k))
           /\ Held(Forget(t, k)) = Held(t) \ {k}
           /\ \A j \in Held(t) \ {k} : Forget(t, k)[j] = t[j]
           /\ HeldCount(Forget(t, k)) = HeldCount(t) - One(k \in Held(t))
<1>1. /\ Forget(t, k) \in Tiers
      /\ Held(Forget(t, k)) = Held(t) \ {k}
      /\ \A j \in Held(t) \ {k} : Forget(t, k)[j] = t[j]
  BY DEF Forget, Tiers, Held, Finite
<1>2. /\ IsFiniteSet(Held(t) \ {k})
      /\ Cardinality(Held(t) \ {k}) =
           IF k \in Held(t) THEN Cardinality(Held(t)) - 1 ELSE Cardinality(Held(t))
  BY FS_RemoveElement DEF Finite
<1>3. HeldCount(t) \in Nat
  BY CountType
<1> QED
  BY <1>1, <1>2, <1>3 DEF Finite, HeldCount, One

LEMMA StoreStep ==
    ASSUME NEW t, Finite(t), NEW k \in Keys, NEW e \in EntrySet
    PROVE  /\ Finite(Store(t, k, e))
           /\ Held(Store(t, k, e)) = Held(t) \cup {k}
           /\ Store(t, k, e)[k] = e
           /\ \A j \in Held(t) \ {k} : Store(t, k, e)[j] = t[j]
           /\ HeldCount(Store(t, k, e)) =
                IF k \in Held(t) THEN HeldCount(t) ELSE HeldCount(t) + 1
<1>0. e # NoValue
  BY NoEntryIsNoValue
<1>1. /\ Store(t, k, e) \in Tiers
      /\ Held(Store(t, k, e)) = Held(t) \cup {k}
      /\ Store(t, k, e)[k] = e
      /\ \A j \in Held(t) \ {k} : Store(t, k, e)[j] = t[j]
  BY <1>0 DEF Store, Tiers, Held, Finite, EntrySet
<1>2. /\ IsFiniteSet(Held(t) \cup {k})
      /\ Cardinality(Held(t) \cup {k}) =
           IF k \in Held(t) THEN Cardinality(Held(t)) ELSE Cardinality(Held(t)) + 1
  BY FS_AddElement DEF Finite
<1> QED
  BY <1>1, <1>2 DEF Finite, HeldCount

\* Counting one more access changes no more than the count.
LEMMA UsedStep ==
    ASSUME NEW t, Finite(t), NEW k \in Held(t)
    PROVE  /\ Finite(Used(t, k))
           /\ Held(Used(t, k)) = Held(t)
           /\ Used(t, k)[k] \in EntrySet
           /\ Used(t, k)[k].value = t[k].value
           /\ Used(t, k)[k].count = (t[k].count + 1) % (CountMax + 1)
           /\ \A j \in Held(t) \ {k} : Used(t, k)[j] = t[j]
           /\ HeldCount(Used(t, k)) = HeldCount(t)
<1>1. /\ k \in Keys /\ t[k] \in EntrySet /\ t[k].count \in 0 .. CountMax
      /\ t \in [Keys -> EntrySet \cup {NoValue}] /\ CountMax \in Nat
  BY EntryType, TieredAssumption DEF Finite, Tiers, EntrySet
<1> DEFINE e == [t[k] EXCEPT !.count = (@ + 1) % (CountMax + 1)]
<1>2. (t[k].count + 1) % (CountMax + 1) \in 0 .. CountMax
  BY <1>1
<1>3. /\ e \in EntrySet /\ e.value = t[k].value
      /\ e.count = (t[k].count + 1) % (CountMax + 1)
  BY <1>1, <1>2 DEF EntrySet
<1>4. Used(t, k) = Store(t, k, e)
  BY <1>1 DEF Used, Store
<1> HIDE DEF e
<1>5. Held(t) \cup {k} = Held(t)
  OBVIOUS
<1>6. /\ Finite(Store(t, k, e))
      /\ Held(Store(t, k, e)) = Held(t) \cup {k}
      /\ Store(t, k, e)[k] = e
      /\ \A j \in Held(t) \ {k} : Store(t, k, e)[j] = t[j]
      /\ HeldCount(Store(t, k, e)) =
           IF k \in Held(t) THEN HeldCount(t) ELSE HeldCount(t) + 1
  BY <1>1, <1>3, StoreStep, Zenon
<1> QED
  BY <1>3, <1>4, <1>5, <1>6

-----------------------------------------------------------------------------
(* The victim: a finite tier has a least used entry.                       *)

\* The order in which entries are given up.
Before(t, j, k) ==
    \/ t[j].count < t[k].count
    \/ t[j].count = t[k].count /\ j <= k

\* The entries up to one are finitely many, so that one of them has none before.
LEMMA VictimIsHeld ==
    ASSUME NEW t, Finite(t), Held(t) # {}
    PROVE  LeastUsed(t) \in Held(t)
<1> DEFINE H == Held(t)
           upTo(k) == {j \in H : Before(t, j, k)}
           segments == {upTo(k) : k \in H}
<1>1. \A k \in H : k \in Nat /\ t[k].count \in Nat
  BY EntryType DEF Finite
<1>2. segments \subseteq FiniteSubsetsOf(H) /\ segments # {}
  <2>1. \A k \in H : upTo(k) \in SUBSET H /\ IsFiniteSet(upTo(k))
    BY FS_Subset DEF Finite
  <2> QED
    BY <2>1 DEF FiniteSubsetsOf
<1>3. IsWellFoundedOn(StrictSubsetOrdering(H), FiniteSubsetsOf(H))
  BY FS_StrictSubsetOrderingWellFounded
<1>4. PICK least \in segments :
        \A y \in segments : <<y, least>> \notin StrictSubsetOrdering(H)
  <2> HIDE DEF segments
  <2> QED
    BY <1>2, <1>3, WFMin, Zenon
<1>5. PICK m \in H : least = upTo(m)
  OBVIOUS
<1>6. ASSUME NEW j \in H, ~Before(t, m, j)
      PROVE  FALSE
  <2>1. /\ upTo(j) \in segments
        /\ upTo(j) \in SUBSET H /\ upTo(m) \in SUBSET H
    OBVIOUS
  <2>2. /\ \A i \in H : Before(t, i, j) => Before(t, i, m)
        /\ Before(t, m, m)
    BY <1>1, <1>6 DEF Before
  <2>3. upTo(j) \subseteq upTo(m) /\ m \in upTo(m) /\ m \notin upTo(j)
    BY <2>2, <1>6
  <2>4. <<upTo(j), upTo(m)>> \in StrictSubsetOrdering(H)
    BY <2>1, <2>3 DEF StrictSubsetOrdering
  <2> QED
    BY <2>1, <2>4, <1>4, <1>5
<1>7. \E k \in Held(t) : \A j \in Held(t) :
        \/ t[k].count < t[j].count
        \/ t[k].count = t[j].count /\ k <= j
  BY <1>6 DEF Before
<1> QED
  BY <1>7, Zenon DEF LeastUsed

-----------------------------------------------------------------------------
(* What the insertion of an entry, with the spill and the eviction it      *)
(* brings about, makes of tiers h and w.                                   *)

Sound(h, w) ==
    /\ Finite(h) /\ Finite(w)
    /\ Held(h) \cap Held(w) = {}
    /\ HeldCount(h) <= AtLeast1(config.hot)
    /\ HeldCount(w) <= AtLeast1(config.warm)
    /\ \A j \in Held(w) : w[j].count < AtLeast1(config.threshold)

Typed ==
    /\ config \in Configs
    /\ promotions \in Nat /\ demotions \in Nat /\ evictions \in Nat
    /\ taken \in Nat
    /\ latest \in [Keys -> Values \cup {NoValue}]

\* Capacities and the threshold are numbers.
LEMMA ConfigType ==
    ASSUME Typed
    PROVE  /\ config.hot \in Nat /\ config.warm \in Nat
           /\ config.threshold \in 0 .. CountMax
           /\ AtLeast1(config.threshold) \in Nat \ {0}
  BY TieredAssumption DEF Typed, Configs, AtLeast1

\* Entry e of k is in the hot tier, and every other entry is an old one.
Entered(h, w, k, e) ==
    /\ k \in Held(hot') /\ hot'[k] = e
    /\ \A j \in Held(hot') \ {k} : j \in Held(h) /\ hot'[j] = h[j]
    /\ \A j \in Held(warm') :
         /\ j # k
         /\ \/ j \in Held(w) /\ warm'[j].value = w[j].value
            \/ j \in Held(h) /\ warm'[j].value = h[j].value

\* Nothing is lost, or one entry is, that there was no room for.
LostAtMostOne(h, w, k) ==
    \/ Held(h) \cup Held(w) \subseteq Held(hot') \cup Held(warm')
    \/ /\ \E lost \in Held(w) :
            (Held(h) \cup Held(w)) \ (Held(hot') \cup Held(warm')) = {lost}
       /\ evictions' = evictions + 1
       /\ k \notin Held(h)
       /\ Held(h) # {} /\ HeldCount(h) >= config.hot
       /\ Held(w) # {} /\ HeldCount(w) >= config.warm

LEMMA InsertStep ==
    ASSUME Typed, NEW h, NEW w, Sound(h, w),
           NEW k \in Keys, k \notin Held(w), NEW e \in EntrySet,
           Insert(h, w, k, e)
    PROVE  /\ Sound(hot', warm')
           /\ Entered(h, w, k, e)
           /\ LostAtMostOne(h, w, k)
           /\ demotions' \in Nat /\ evictions' \in Nat
           /\ demotions' + HeldCount(w) + evictions = demotions + HeldCount(warm') + evictions'
<1> USE DEF Sound
<1>1. /\ config.hot \in Nat /\ config.warm \in Nat
      /\ AtLeast1(config.threshold) \in Nat \ {0}
      /\ demotions \in Nat /\ evictions \in Nat
  BY ConfigType DEF Typed
<1>2. /\ HeldCount(h) \in Nat /\ (HeldCount(h) = 0 <=> Held(h) = {})
      /\ HeldCount(w) \in Nat /\ (HeldCount(w) = 0 <=> Held(w) = {})
  BY CountType
<1>3. CASE ~Spills(h, k)
  <2>1. /\ hot' = Store(h, k, e) /\ warm' = w
        /\ demotions' = demotions /\ evictions' = evictions
    BY <1>3 DEF Insert
  <2>2. /\ Finite(hot') /\ Held(hot') = Held(h) \cup {k} /\ hot'[k] = e
        /\ \A j \in Held(h) \ {k} : hot'[j] = h[j]
        /\ HeldCount(hot') = IF k \in Held(h) THEN HeldCount(h) ELSE HeldCount(h) + 1
    BY <2>1, StoreStep
  <2>3. HeldCount(hot') <= AtLeast1(config.hot)
    BY <1>1, <1>2, <1>3, <2>2 DEF Spills, AtLeast1
  <2>4. Entered(h, w, k, e) /\ LostAtMostOne(h, w, k)
    BY <2>1, <2>2 DEF Entered, LostAtMostOne
  <2> QED
    BY <1>1, <1>2, <2>1, <2>2, <2>3, <2>4
<1>4. CASE Spills(h, k)
  <2> DEFINE victim == LeastUsed(h)
             room == IF Evicts(w) THEN Forget(w, LeastUsed(w)) ELSE w
             down == Entry(h[victim].value, 0)
  <2>1. /\ k \notin Held(h) /\ Held(h) # {} /\ HeldCount(h) >= config.hot
    BY <1>4 DEF Spills
  <2>2. /\ victim \in Held(h) /\ victim \in Keys /\ victim # k
        /\ victim \notin Held(w)
        /\ down \in EntrySet /\ down.value = h[victim].value /\ down.count = 0
    BY <2>1, VictimIsHeld, EntryType, TieredAssumption DEF Finite, Entry, EntrySet
  <2>3. /\ hot' = Store(Forget(h, victim), k, e)
        /\ warm' = Store(room, victim, down)
        /\ demotions' = demotions + 1
        /\ evictions' = IF Evicts(w) THEN evictions + 1 ELSE evictions
    BY <1>4 DEF Insert
  <2>4. /\ Finite(Forget(h, victim))
        /\ Held(Forget(h, victim)) = Held(h) \ {victim}
        /\ \A j \in Held(h) \ {victim} : Forget(h, victim)[j] = h[j]
        /\ HeldCount(Forget(h, victim)) = HeldCount(h) - 1
    BY <2>2, ForgetStep DEF One
  <2>5. /\ Finite(room)
        /\ Held(room) \subseteq Held(w)
        /\ \A j \in Held(room) : room[j] = w[j]
        /\ HeldCount(room) \in Nat
        /\ IF Evicts(w)
           THEN /\ HeldCount(room) = HeldCount(w) - 1
                /\ \E lost \in Held(w) : Held(w) \ Held(room) = {lost}
                /\ Held(w) # {} /\ HeldCount(w) >= config.warm
           ELSE Held(room) = Held(w) /\ HeldCount(room) = HeldCount(w)
    <3>1. CASE ~Evicts(w)
      BY <1>2, <3>1
    <3>2. CASE Evicts(w)
      <4>1. Held(w) # {} /\ HeldCount(w) >= config.warm
        BY <3>2 DEF Evicts
      <4>2. LeastUsed(w) \in Held(w) /\ LeastUsed(w) \in Keys
        BY <4>1, VictimIsHeld, EntryType DEF Finite
      <4>3. room = Forget(w, LeastUsed(w))
        BY <3>2
      <4>4. /\ Finite(room) /\ Held(room) = Held(w) \ {LeastUsed(w)}
            /\ \A j \in Held(w) \ {LeastUsed(w)} : room[j] = w[j]
            /\ HeldCount(room) = HeldCount(w) - 1
        BY <4>2, <4>3, ForgetStep DEF One
      <4> HIDE DEF room
      <4> QED
        BY <1>2, <3>2, <4>1, <4>2, <4>4
    <3> QED
      BY <3>1, <3>2
  <2> HIDE DEF victim, room, down
  <2>6. /\ Finite(hot') /\ Held(hot') = (Held(h) \ {victim}) \cup {k} /\ hot'[k] = e
        /\ \A j \in Held(h) \ {victim, k} : hot'[j] = h[j]
        /\ HeldCount(hot') = HeldCount(h)
    <3>1. /\ Finite(hot') /\ Held(hot') = Held(Forget(h, victim)) \cup {k}
          /\ hot'[k] = e
          /\ \A j \in Held(Forget(h, victim)) \ {k} : hot'[j] = Forget(h, victim)[j]
          /\ HeldCount(hot') = IF k \in Held(Forget(h, victim))
                               THEN HeldCount(Forget(h, victim))
                               ELSE HeldCount(Forget(h, victim)) + 1
      BY <2>3, <2>4, StoreStep
    <3> QED
      BY <1>2, <2>1, <2>4, <3>1
  <2>7. /\ Finite(warm') /\ Held(warm') = Held(room) \cup {victim}
        /\ warm'[victim] = down
        /\ \A j \in Held(room) \ {victim} : warm'[j] = room[j]
        /\ HeldCount(warm') = HeldCount(room) + 1
    <3>1. victim \notin Held(room)
      BY <2>2, <2>5
    <3> QED
      BY <2>2, <2>3, <2>5, <3>1, StoreStep
  <2>8. Held(hot') \cap Held(warm') = {}
    BY <2>1, <2>2, <2>5, <2>6, <2>7
  <2>9. HeldCount(warm') <= AtLeast1(config.warm)
    BY <1>1, <1>2, <2>5, <2>7 DEF Evicts, AtLeast1
  <2>10. \A j \in Held(warm') : warm'[j].count < AtLeast1(config.threshold)
    BY <1>1, <2>2, <2>5, <2>7
  <2>11. Entered(h, w, k, e)
    BY <2>1, <2>2, <2>5, <2>6, <2>7 DEF Entered
  <2>12. LostAtMostOne(h, w, k)
    <3>1. CASE ~Evicts(w)
      BY <2>5, <2>6, <2>7, <3>1 DEF LostAtMostOne
    <3>2. CASE Evicts(w)
      <4>1. PICK lost \in Held(w) : Held(w) \ Held(room) = {lost}
        BY <2>5, <3>2
      <4>2. (Held(h) \cup Held(w)) \ (Held(hot') \cup Held(warm')) = {lost}
        BY <2>1, <2>2, <2>5, <2>6, <2>7, <4>1
      <4> QED
        BY <2>1, <2>3, <2>5, <3>2, <4>2 DEF LostAtMostOne
    <3> QED
      BY <3>1, <3>2
  <2>13. /\ demotions' \in Nat /\ evictions' \in Nat
         /\ demotions' + HeldCount(w) + evictions = demotions + HeldCount(warm') + evictions'
    BY <1>1, <1>2, <2>3, <2>5, <2>7
  <2> QED
    BY <2>6, <2>7, <2>8, <2>9, <2>10, <2>11, <2>12, <2>13
<1> QED
  BY <1>3, <1>4

-----------------------------------------------------------------------------
(* The inductive invariant.                                                *)

Inv ==
    /\ Typed
    /\ Sound(hot, warm)
    /\ FreshCopies
    /\ DemotionsAccounted

LEMMA InitInv == Init => Inv
<1> SUFFICES ASSUME Init PROVE Inv
  OBVIOUS
<1>1. Typed
  BY DEF Init, Typed, EmptyMap
<1>2. /\ Finite(hot) /\ Held(hot) = {} /\ HeldCount(hot) = 0
      /\ Finite(warm) /\ Held(warm) = {} /\ HeldCount(warm) = 0
  BY EmptyTier DEF Init
<1>3. AtLeast1(config.hot) \in Nat /\ AtLeast1(config.warm) \in Nat
  BY <1>1, ConfigType DEF AtLeast1
<1>4. Sound(hot, warm)
  BY <1>2, <1>3 DEF Sound
<1>5. FreshCopies /\ DemotionsAccounted
  BY <1>2 DEF FreshCopies, DemotionsAccounted, Init
<1> QED
  BY <1>1, <1>4, <1>5 DEF Inv

\* What Inv says, with the counts as numbers.
LEMMA InvFacts ==
    ASSUME Inv
    PROVE  /\ Typed /\ Sound(hot, warm) /\ Finite(hot) /\ Finite(warm)
           /\ HeldCount(hot) \in Nat /\ HeldCount(warm) \in Nat
           /\ \A k \in Held(hot) : k \notin Held(warm) /\ hot[k].value = latest[k]
           /\ \A k \in Held(warm) : k \notin Held(hot) /\ warm[k].value = latest[k]
           /\ demotions = HeldCount(warm) + promotions + evictions + taken
  BY CountType DEF Inv, Sound, FreshCopies, DemotionsAccounted

\* One access in the hot tier.
LEMMA GetHotStep ==
    ASSUME Inv, NEW k \in Keys, GetHot(k)
    PROVE  Inv' /\ Held(hot') = Held(hot) /\ warm' = warm /\ latest' = latest
<1>1. /\ k \in Held(hot) /\ hot' = Used(hot, k)
      /\ UNCHANGED <<config, warm, promotions, demotions, evictions, latest, taken>>
  BY DEF GetHot
<1>2. /\ Finite(hot') /\ Held(hot') = Held(hot) /\ HeldCount(hot') = HeldCount(hot)
      /\ hot'[k].value = hot[k].value
      /\ \A j \in Held(hot) \ {k} : hot'[j] = hot[j]
  BY <1>1, InvFacts, UsedStep
<1>3. Typed'
  BY <1>1, InvFacts DEF Typed
<1>4. Sound(hot, warm)'
  BY <1>1, <1>2, InvFacts DEF Sound, AtLeast1
<1>5. FreshCopies' /\ DemotionsAccounted'
  BY <1>1, <1>2, InvFacts DEF FreshCopies, DemotionsAccounted
<1> QED
  BY <1>1, <1>2, <1>3, <1>4, <1>5 DEF Inv

\* One access in the warm tier, which stays below the threshold.
LEMMA GetWarmStep ==
    ASSUME Inv, NEW k \in Keys, GetWarm(k)
    PROVE  Inv' /\ Held(warm') = Held(warm) /\ hot' = hot /\ latest' = latest
<1>1. /\ k \in Held(warm) /\ ~Overdue(k) /\ warm' = Used(warm, k)
      /\ UNCHANGED <<config, hot, promotions, demotions, evictions, latest, taken>>
  BY DEF GetWarm
<1>2. /\ Finite(warm') /\ Held(warm') = Held(warm) /\ HeldCount(warm') = HeldCount(warm)
      /\ warm'[k].value = warm[k].value
      /\ warm'[k].count = (warm[k].count + 1) % (CountMax + 1)
      /\ \A j \in Held(warm) \ {k} : warm'[j] = warm[j]
  BY <1>1, InvFacts, UsedStep
<1>3. Typed'
  BY <1>1, InvFacts DEF Typed
<1>4. warm'[k].count < AtLeast1(config.threshold)
  <2>1. /\ warm[k].count \in 0 .. CountMax /\ CountMax \in Nat
        /\ config.threshold \in 0 .. CountMax
    BY <1>1, InvFacts, EntryType, ConfigType, TieredAssumption DEF Finite
  <2>2. warm[k].count + 1 < config.threshold
    BY <1>1, <2>1 DEF Overdue
  <2>3. (warm[k].count + 1) % (CountMax + 1) = warm[k].count + 1
    BY <2>1, <2>2
  <2> QED
    BY <1>2, <2>1, <2>2, <2>3 DEF AtLeast1
<1>5. Sound(hot, warm)'
  <2>1. \A j \in Held(warm') : warm'[j].count < AtLeast1(config.threshold)
    BY <1>2, <1>4, InvFacts DEF Sound
  <2>2. config' = config /\ hot' = hot
    BY <1>1
  <2> QED
    BY <1>2, <2>1, <2>2, InvFacts DEF Sound, AtLeast1
<1>6. FreshCopies' /\ DemotionsAccounted'
  BY <1>1, <1>2, InvFacts DEF FreshCopies, DemotionsAccounted
<1> QED
  BY <1>1, <1>2, <1>3, <1>5, <1>6 DEF Inv

\* Taking a key out of the warm tier, before the insertion.
LEMMA WithoutKey ==
    ASSUME Inv, NEW k \in Keys
    PROVE  /\ Sound(hot, Forget(warm, k))
           /\ Held(Forget(warm, k)) = Held(warm) \ {k}
           /\ \A j \in Held(warm) \ {k} : Forget(warm, k)[j] = warm[j]
           /\ HeldCount(Forget(warm, k)) = HeldCount(warm) - One(k \in Held(warm))
<1>1. /\ Finite(Forget(warm, k))
      /\ Held(Forget(warm, k)) = Held(warm) \ {k}
      /\ \A j \in Held(warm) \ {k} : Forget(warm, k)[j] = warm[j]
      /\ HeldCount(Forget(warm, k)) = HeldCount(warm) - One(k \in Held(warm))
  BY InvFacts, ForgetStep
<1>2. HeldCount(Forget(warm, k)) <= AtLeast1(config.warm)
  BY <1>1, InvFacts, ConfigType DEF Sound, One, AtLeast1
<1> QED
  BY <1>1, <1>2, InvFacts DEF Sound

\* With its key taken out, a warm tier that was not over its capacity has room.
LEMMA RoomForKey ==
    ASSUME Inv, NEW k \in Held(warm)
    PROVE  ~Evicts(Forget(warm, k))
<1>1. k \in Keys
  BY DEF Held
<1>2. /\ HeldCount(Forget(warm, k)) = HeldCount(warm) - 1
      /\ Finite(Forget(warm, k))
  BY <1>1, WithoutKey DEF One, Sound
<1>3. HeldCount(Forget(warm, k)) = 0 <=> Held(Forget(warm, k)) = {}
  BY <1>2, CountType
<1> QED
  BY <1>2, <1>3, InvFacts, ConfigType DEF Sound, Evicts, AtLeast1

\* What an insertion makes of Inv, for a get that promotes and for a put.
LEMMA EnterStep ==
    ASSUME Inv, NEW k \in Keys, NEW e \in EntrySet,
           Insert(hot, Forget(warm, k), k, e), Typed',
           config' = config,
           e.value = latest'[k], \A j \in Keys \ {k} : latest'[j] = latest[j],
           promotions' + taken' = promotions + taken + One(k \in Held(warm))
    PROVE  /\ Inv'
           /\ Entered(hot, Forget(warm, k), k, e)
           /\ LostAtMostOne(hot, Forget(warm, k), k)
<1> DEFINE w == Forget(warm, k)
<1>1. /\ Sound(hot, w) /\ Held(w) = Held(warm) \ {k} /\ k \notin Held(w)
      /\ \A j \in Held(w) : w[j] = warm[j]
      /\ HeldCount(w) = HeldCount(warm) - One(k \in Held(warm))
  BY WithoutKey
<1> HIDE DEF w
<1>2. /\ Sound(hot', warm')
      /\ Entered(hot, w, k, e)
      /\ LostAtMostOne(hot, w, k)
      /\ demotions' \in Nat /\ evictions' \in Nat
      /\ demotions' + HeldCount(w) + evictions = demotions + HeldCount(warm') + evictions'
  <2>1. Insert(hot, w, k, e)
    BY DEF w
  <2> QED
    BY <1>1, <2>1, InvFacts, InsertStep
<1>3. Sound(hot, warm)'
  BY <1>2 DEF Sound, AtLeast1
<1>4. FreshCopies'
  <2>1. ASSUME NEW j \in Held(hot') PROVE hot'[j].value = latest'[j]
    <3>1. j \in Keys
      BY DEF Held
    <3> QED
      BY <3>1, <1>2, InvFacts DEF Entered
  <2>2. ASSUME NEW j \in Held(warm') PROVE warm'[j].value = latest'[j]
    <3>1. j \in Keys /\ j # k
      BY <1>2 DEF Entered, Held
    <3> QED
      BY <3>1, <1>1, <1>2, InvFacts DEF Entered
  <2>3. Held(hot') \cap Held(warm') = {}
    BY <1>2 DEF Sound
  <2> QED
    BY <2>1, <2>2, <2>3 DEF FreshCopies
<1>5. DemotionsAccounted'
  <2>1. /\ HeldCount(warm') \in Nat /\ HeldCount(warm) \in Nat /\ HeldCount(w) \in Nat
        /\ One(k \in Held(warm)) \in Nat
    BY <1>1, <1>2, CountType, InvFacts DEF Sound, One
  <2>2. demotions = HeldCount(warm) + promotions + evictions + taken
    BY InvFacts
  <2>3. /\ demotions' + HeldCount(w) + evictions = demotions + HeldCount(warm') + evictions'
        /\ HeldCount(w) = HeldCount(warm) - One(k \in Held(warm))
        /\ demotions \in Nat /\ evictions \in Nat /\ promotions \in Nat /\ taken \in Nat
        /\ demotions' \in Nat /\ evictions' \in Nat /\ promotions' \in Nat /\ taken' \in Nat
    BY <1>1, <1>2, InvFacts DEF Typed
  <2>4. demotions' = HeldCount(warm') + promotions' + evictions' + taken'
    <3>1. demotions - HeldCount(w) - evictions = promotions + taken + One(k \in Held(warm))
      BY <2>1, <2>2, <2>3
    <3>2. demotions' = demotions - HeldCount(w) - evictions + HeldCount(warm') + evictions'
      BY <2>1, <2>3
    <3>3. demotions' = promotions + taken + One(k \in Held(warm)) + HeldCount(warm') + evictions'
      BY <3>1, <3>2, <2>1, <2>3
    <3> QED
      BY <3>3, <2>1, <2>3
  <2> QED
    BY <2>4 DEF DemotionsAccounted
<1> QED
  BY <1>2, <1>3, <1>4, <1>5 DEF Inv, w

LEMMA PromoteStep ==
    ASSUME Inv, NEW k \in Keys, GetPromote(k)
    PROVE  Inv' /\ Held(hot) \cup Held(warm) \subseteq Held(hot') \cup Held(warm')
<1> DEFINE e == Used(warm, k)[k]
<1>1. /\ k \in Held(warm) \ Held(hot)
      /\ Insert(hot, Forget(warm, k), k, e)
      /\ promotions' = promotions + 1
      /\ config' = config /\ latest' = latest /\ taken' = taken
  BY DEF GetPromote
<1>2. e \in EntrySet /\ e.value = warm[k].value
  BY <1>1, InvFacts, UsedStep
<1> HIDE DEF e
<1>3. Typed'
  <2>1. demotions' \in Nat /\ evictions' \in Nat
    BY <1>1, InvFacts DEF Insert, Typed
  <2> QED
    BY <1>1, <2>1, InvFacts DEF Typed
<1>4. promotions' + taken' = promotions + taken + One(k \in Held(warm))
  BY <1>1, InvFacts DEF Typed, One
<1>5. /\ Inv'
      /\ Entered(hot, Forget(warm, k), k, e)
      /\ LostAtMostOne(hot, Forget(warm, k), k)
  BY <1>1, <1>2, <1>3, <1>4, InvFacts, EnterStep
<1>6. Held(hot) \cup Held(Forget(warm, k)) \subseteq Held(hot') \cup Held(warm')
  BY <1>1, <1>5, RoomForKey DEF LostAtMostOne, Evicts
<1>7. Held(Forget(warm, k)) = Held(warm) \ {k}
  BY WithoutKey
<1> QED
  BY <1>5, <1>6, <1>7 DEF Entered

LEMMA PutStep ==
    ASSUME Inv, NEW k \in Keys, NEW v \in Values, Put(k, v)
    PROVE  Inv' /\ k \in Held(hot') /\ LostAtMostOne(hot, Forget(warm, k), k)
<1>1. /\ Insert(hot, Forget(warm, k), k, Entry(v, 1))
      /\ latest' = Store(latest, k, v)
      /\ taken' = taken + One(k \in Held(warm))
      /\ config' = config /\ promotions' = promotions
  BY DEF Put
<1>2. Entry(v, 1) \in EntrySet /\ Entry(v, 1).value = v
  BY TieredAssumption DEF Entry, EntrySet
<1>3. latest'[k] = v /\ \A j \in Keys \ {k} : latest'[j] = latest[j]
  BY <1>1, InvFacts DEF Typed, Store
<1>4. Typed'
  <2>1. demotions' \in Nat /\ evictions' \in Nat
    BY <1>1, InvFacts DEF Insert, Typed
  <2>2. latest' \in [Keys -> Values \cup {NoValue}]
    BY <1>1, InvFacts DEF Typed, Store
  <2> QED
    BY <1>1, <2>1, <2>2, InvFacts DEF Typed, One
<1>5. promotions' + taken' = promotions + taken + One(k \in Held(warm))
  BY <1>1, InvFacts DEF Typed, One
<1> QED
  BY <1>1, <1>2, <1>3, <1>4, <1>5, EnterStep DEF Entered

LEMMA RemoveStep ==
    ASSUME Inv, NEW k \in Keys, Remove(k)
    PROVE  Inv' /\ \A j \in (Held(hot) \cup Held(warm)) \ (Held(hot') \cup Held(warm')) :
                      latest'[j] = NoValue
<1>1. /\ hot' = Forget(hot, k)
      /\ warm' = IF k \in Held(hot) THEN warm ELSE Forget(warm, k)
      /\ latest' = Forget(latest, k)
      /\ taken' = taken + One(k \in Held(warm) \ Held(hot))
      /\ UNCHANGED <<config, promotions, demotions, evictions>>
  BY DEF Remove
<1>2. /\ Finite(hot') /\ Held(hot') = Held(hot) \ {k}
      /\ \A j \in Held(hot') : hot'[j] = hot[j]
      /\ HeldCount(hot') = HeldCount(hot) - One(k \in Held(hot))
  BY <1>1, InvFacts, ForgetStep
<1>3. /\ Finite(warm') /\ Held(warm') = Held(warm) \ {k}
      /\ \A j \in Held(warm') : warm'[j] = warm[j]
      /\ HeldCount(warm') = HeldCount(warm) - One(k \in Held(warm) \ Held(hot))
  BY <1>1, InvFacts, ForgetStep DEF One
<1>4. /\ latest'[k] = NoValue
      /\ \A j \in Keys \ {k} : latest'[j] = latest[j]
      /\ latest' \in [Keys -> Values \cup {NoValue}]
  BY <1>1, InvFacts DEF Forget, Typed
<1>5. Typed'
  BY <1>1, <1>4, InvFacts DEF Typed, One
<1>6. Sound(hot, warm)'
  BY <1>1, <1>2, <1>3, InvFacts, ConfigType DEF Sound, One, AtLeast1
<1>7. FreshCopies'
  BY <1>2, <1>3, <1>4, InvFacts DEF FreshCopies, Held
<1>8. DemotionsAccounted'
  BY <1>1, <1>3, InvFacts DEF DemotionsAccounted, One, Typed
<1> QED
  BY <1>2, <1>3, <1>4, <1>5, <1>6, <1>7, <1>8 DEF Inv

LEMMA ClearStep ==
    ASSUME Inv, Clear
    PROVE  Inv' /\ \A j \in Keys : latest'[j] = NoValue
<1>1. /\ hot' = EmptyMap /\ warm' = EmptyMap /\ latest' = EmptyMap
      /\ taken' = taken + HeldCount(warm)
      /\ UNCHANGED <<config, promotions, demotions, evictions>>
  BY DEF Clear
<1>2. /\ Finite(hot') /\ Held(hot') = {} /\ HeldCount(hot') = 0
      /\ Finite(warm') /\ Held(warm') = {} /\ HeldCount(warm') = 0
  BY <1>1, EmptyTier
<1>3. latest' \in [Keys -> Values \cup {NoValue}] /\ \A j \in Keys : latest'[j] = NoValue
  BY <1>1 DEF EmptyMap
<1>4. Typed'
  BY <1>1, <1>3, InvFacts DEF Typed
<1>5. Sound(hot, warm)'
  BY <1>1, <1>2, InvFacts, ConfigType DEF Sound, AtLeast1
<1>6. FreshCopies'
  BY <1>2 DEF FreshCopies
<1>7. DemotionsAccounted'
  BY <1>1, <1>2, InvFacts DEF DemotionsAccounted, Typed
<1> QED
  BY <1>3, <1>4, <1>5, <1>6, <1>7 DEF Inv

-----------------------------------------------------------------------------
(* The theorems.                                                           *)

\* Every step keeps the invariant, and what it loses had to go.
LEMMA StepKeeps ==
    ASSUME Inv, [Next]_vars
    PROVE  Inv'
<1>1. ASSUME NEW k \in Keys, GetHot(k) PROVE Inv'
  BY <1>1, GetHotStep
<1>2. ASSUME NEW k \in Keys, GetPromote(k) PROVE Inv'
  BY <1>2, PromoteStep
<1>3. ASSUME NEW k \in Keys, GetWarm(k) PROVE Inv'
  BY <1>3, GetWarmStep
<1>4. ASSUME NEW k \in Keys, Remove(k) PROVE Inv'
  BY <1>4, RemoveStep
<1>5. ASSUME NEW k \in Keys, NEW v \in Values, Put(k, v) PROVE Inv'
  BY <1>5, PutStep
<1>6. ASSUME Clear PROVE Inv'
  BY <1>6, ClearStep
<1>7. CASE UNCHANGED vars
  BY <1>7 DEF vars, Inv, Typed, Sound, Finite, FreshCopies, DemotionsAccounted, AtLeast1,
              Held, HeldCount
<1> QED
  BY <1>1, <1>2, <1>3, <1>4, <1>5, <1>6, <1>7 DEF Next

\* The tiers, the counters and the histories are accounted for in every
\* reachable state, for all keys, capacities and thresholds.
THEOREM Invariance == Spec => []Inv
<1>1. Inv /\ [Next]_vars => Inv'
  BY StepKeeps
<1> QED
  BY <1>1, InitInv, PTL DEF Spec

\* The store keeps its type (tiered.rs, TieredCache).
THEOREM TypeCorrect == Spec => []TypeOK
<1>1. Inv => TypeOK
  BY InvFacts DEF TypeOK, Typed, Finite
<1> QED
  BY <1>1, Invariance, PTL

\* No key is counted in both tiers.
LEMMA LengthCounts ==
    ASSUME Inv
    PROVE  Length = Cardinality({k \in Keys : Contains(k)})
<1>1. /\ IsFiniteSet(Held(hot)) /\ IsFiniteSet(Held(warm))
      /\ HeldCount(hot) \in Nat /\ HeldCount(warm) \in Nat
  BY InvFacts, CountType DEF Finite
<1>2. Held(hot) \cap Held(warm) = {}
  BY DEF Inv, FreshCopies
<1>3. Cardinality(Held(hot) \cup Held(warm)) =
        Cardinality(Held(hot)) + Cardinality(Held(warm)) - Cardinality({})
  BY <1>1, <1>2, FS_Union
<1>4. Cardinality({}) = 0
  BY FS_EmptySet
<1>5. {k \in Keys : Contains(k)} = Held(hot) \cup Held(warm)
  BY DEF Contains, Held
<1>6. /\ Length = Cardinality(Held(hot)) + Cardinality(Held(warm))
      /\ Cardinality(Held(hot)) \in Nat /\ Cardinality(Held(warm)) \in Nat
  BY <1>1 DEF Length, HeldCount
<1>7. Length = Cardinality(Held(hot) \cup Held(warm))
  BY <1>3, <1>4, <1>6
<1> QED
  BY <1>5, <1>7

\* A key is in one tier at most, with the value last put, and len counts it once
\* (tiered.rs, put, remove, get, len, contains).
THEOREM OneCopy == Spec => []OneFreshCopy
<1>1. Inv => OneFreshCopy
  BY LengthCounts DEF Inv, OneFreshCopy
<1> QED
  BY <1>1, Invariance, PTL

\* No call leaves a tier over its capacity (tiered.rs, spill_one, evict_warm).
THEOREM Bounded == Spec => []TiersBounded
<1>1. Inv => TiersBounded
  BY DEF Inv, Sound, TiersBounded
<1> QED
  BY <1>1, Invariance, PTL

\* Every demotion is accounted for (tiered.rs, the three counters).
THEOREM Accounted == Spec => []DemotionsAccounted
<1>1. Inv => DemotionsAccounted
  BY DEF Inv
<1> QED
  BY <1>1, Invariance, PTL

\* No warm entry has reached the threshold (tiered.rs, get).
THEOREM Promoted == Spec => []NoneOverdue
<1>1. Inv => NoneOverdue
  BY DEF Inv, Sound, NoneOverdue
<1> QED
  BY <1>1, Invariance, PTL

\* What the step of a put loses is one entry, and had to go.
LEMMA PutLoses ==
    ASSUME Inv, NEW k \in Keys, NEW v \in Values, Put(k, v),
           NEW lost,
           lost = {j \in (Held(hot) \cup Held(warm)) \ (Held(hot') \cup Held(warm')) :
                      latest'[j] # NoValue},
           lost # {}
    PROVE  /\ Cardinality(lost) = 1 /\ evictions' = evictions + 1
           /\ (Held(hot') \cup Held(warm')) \ (Held(hot) \cup Held(warm)) # {}
           /\ HeldCount(hot) >= config.hot /\ HeldCount(warm) >= config.warm
<1>1. k \in Held(hot') /\ LostAtMostOne(hot, Forget(warm, k), k)
  BY PutStep
<1>2. Held(Forget(warm, k)) = Held(warm) \ {k}
  BY WithoutKey
<1>3. ~ (Held(hot) \cup Held(Forget(warm, k)) \subseteq Held(hot') \cup Held(warm'))
  BY <1>1, <1>2
<1>4. /\ \E j \in Held(Forget(warm, k)) :
           (Held(hot) \cup Held(Forget(warm, k))) \ (Held(hot') \cup Held(warm')) = {j}
      /\ evictions' = evictions + 1
      /\ k \notin Held(hot)
      /\ HeldCount(hot) >= config.hot
      /\ Held(Forget(warm, k)) # {} /\ HeldCount(Forget(warm, k)) >= config.warm
  BY <1>1, <1>3 DEF LostAtMostOne
<1>5. k \notin Held(warm)
  BY <1>4, RoomForKey DEF Evicts
<1>6. HeldCount(warm) >= config.warm
  BY <1>4, <1>5, WithoutKey, InvFacts, ConfigType DEF One
<1>7. PICK j : (Held(hot) \cup Held(Forget(warm, k))) \ (Held(hot') \cup Held(warm')) = {j}
  BY <1>4
<1>8. lost = {j}
  BY <1>1, <1>2, <1>7
<1>9. Cardinality(lost) = 1
  BY <1>8, FS_Singleton
<1> QED
  BY <1>1, <1>4, <1>5, <1>6, <1>9

\* Only an eviction loses an entry (tiered.rs, spill_one, evict_warm): no get
\* does, and a put one at most, when both tiers were full.
THEOREM OnlyEvictionLoses == Spec => LosesOnlyByEviction
<1> DEFINE lost == {j \in (Held(hot) \cup Held(warm)) \ (Held(hot') \cup Held(warm')) :
                      latest'[j] # NoValue}
<1>1. Inv /\ [Next]_vars => [NeededLoss]_vars
  <2> SUFFICES ASSUME Inv, Next PROVE NeededLoss
    OBVIOUS
  <2>1. ASSUME NEW k \in Keys, GetHot(k) PROVE lost = {}
    BY <2>1, GetHotStep
  <2>2. ASSUME NEW k \in Keys, GetPromote(k) PROVE lost = {}
    BY <2>2, PromoteStep
  <2>3. ASSUME NEW k \in Keys, GetWarm(k) PROVE lost = {}
    BY <2>3, GetWarmStep
  <2>4. ASSUME NEW k \in Keys, Remove(k) PROVE lost = {}
    BY <2>4, RemoveStep
  <2>5. ASSUME Clear PROVE lost = {}
    BY <2>5, ClearStep DEF Held
  <2>6. ASSUME NEW k \in Keys, NEW v \in Values, Put(k, v) PROVE NeededLoss
    BY <2>6, PutLoses DEF NeededLoss
  <2> QED
    BY <2>1, <2>2, <2>3, <2>4, <2>5, <2>6 DEF Next, NeededLoss
<1> QED
  BY <1>1, Invariance, PTL DEF Spec, LosesOnlyByEviction

-----------------------------------------------------------------------------
(* The two tiers together are one map of bounded size: what a cache        *)
(* promises (LossyMap), of a store that moves entries up and down.         *)

\* What a get answers for each key.
Contents ==
    [k \in Keys |-> IF k \in Held(hot) THEN hot[k].value
                    ELSE IF k \in Held(warm) THEN warm[k].value ELSE NoValue]

Room == AtLeast1(config.hot) + AtLeast1(config.warm)

\* No get changes the map, whatever it moves; a remove takes out its key and no
\* other; and a put admits its key, at the cost of one other key at most, and that
\* only when its key is new and the map is full.
MapStep ==
    /\ \A k \in Keys :
         /\ GetHot(k) \/ GetPromote(k) \/ GetWarm(k) => Contents' = Contents
         /\ Remove(k) => Contents' = Forget(Contents, k)
         /\ \A v \in Values : Put(k, v) => Contents' \in AfterPut(Contents, Room, k, v)
    /\ Clear => Contents' = EmptyMap
    /\ Room' = Room

\* A map of the values last put.
Fresh ==
    /\ Contents = [k \in Keys |-> IF k \in Held(hot) \cup Held(warm) THEN latest[k] ELSE NoValue]
    /\ Held(Contents) = Held(hot) \cup Held(warm)
    /\ HeldCount(Contents) = HeldCount(hot) + HeldCount(warm)
    /\ HeldCount(Contents) \in Nat /\ HeldCount(Contents) <= Room

LEMMA ContentsFresh == Inv => Fresh
<1> SUFFICES ASSUME Inv PROVE Fresh
  OBVIOUS
<1>1. Contents = [k \in Keys |-> IF k \in Held(hot) \cup Held(warm) THEN latest[k] ELSE NoValue]
  BY InvFacts DEF Contents
<1>2. ASSUME NEW k \in Held(hot) \cup Held(warm)
      PROVE  latest[k] \in Values /\ latest[k] # NoValue
  <2>1. ASSUME k \in Held(hot) PROVE latest[k] \in Values
    BY <2>1, InvFacts, EntryType DEF Finite
  <2>2. ASSUME k \in Held(warm) PROVE latest[k] \in Values
    BY <2>2, InvFacts, EntryType DEF Finite
  <2> QED
    BY <2>1, <2>2, TieredAssumption
<1>3. Held(hot) \cup Held(warm) \subseteq Keys
  BY DEF Held
<1>4. Held(Contents) = Held(hot) \cup Held(warm)
  <2>1. ASSUME NEW k \in Keys
        PROVE  Contents[k] # NoValue <=> k \in Held(hot) \cup Held(warm)
    BY <1>1, <1>2
  <2> QED
    BY <2>1, <1>3 DEF Held
<1>5. {k \in Keys : Contains(k)} = Held(hot) \cup Held(warm)
  BY DEF Contains, Held
<1>6. HeldCount(Contents) = HeldCount(hot) + HeldCount(warm)
  BY <1>4, <1>5, LengthCounts DEF Length, HeldCount
<1>7. /\ HeldCount(hot) \in Nat /\ HeldCount(warm) \in Nat
      /\ HeldCount(hot) <= AtLeast1(config.hot) /\ HeldCount(warm) <= AtLeast1(config.warm)
      /\ AtLeast1(config.hot) \in Nat /\ AtLeast1(config.warm) \in Nat
  BY InvFacts, ConfigType DEF Sound, AtLeast1
<1>8. HeldCount(Contents) \in Nat /\ HeldCount(Contents) <= Room
  BY <1>6, <1>7 DEF Room
<1> QED
  BY <1>1, <1>4, <1>6, <1>8 DEF Fresh

LEMMA ContentsFreshNext == Inv' => Fresh'
  BY ContentsFresh, PTL

\* A call that keeps the keys and the values keeps the map.
LEMMA SameContents ==
    ASSUME Inv, Inv', latest' = latest,
           Held(hot') \cup Held(warm') = Held(hot) \cup Held(warm)
    PROVE  Contents' = Contents
  BY ContentsFresh, ContentsFreshNext DEF Fresh

LEMMA GetsKeepContents ==
    ASSUME Inv, NEW k \in Keys, GetHot(k) \/ GetPromote(k) \/ GetWarm(k)
    PROVE  Contents' = Contents
<1>1. CASE GetHot(k)
  BY <1>1, GetHotStep, SameContents
<1>2. CASE GetWarm(k)
  BY <1>2, GetWarmStep, SameContents
<1>3. CASE GetPromote(k)
  <2> DEFINE e == Used(warm, k)[k]
  <2>1. /\ k \in Held(warm) \ Held(hot) /\ latest' = latest
        /\ Insert(hot, Forget(warm, k), k, e)
    BY <1>3 DEF GetPromote
  <2>2. e \in EntrySet
    BY <2>1, InvFacts, UsedStep
  <2> HIDE DEF e
  <2>3. /\ Sound(hot, Forget(warm, k)) /\ k \notin Held(Forget(warm, k))
        /\ Held(Forget(warm, k)) = Held(warm) \ {k}
    BY WithoutKey
  <2>4. Entered(hot, Forget(warm, k), k, e)
    BY <2>1, <2>2, <2>3, InvFacts, InsertStep
  <2>5. Held(hot') \cup Held(warm') \subseteq Held(hot) \cup Held(warm)
    BY <2>1, <2>3, <2>4 DEF Entered
  <2>6. Inv' /\ Held(hot) \cup Held(warm) \subseteq Held(hot') \cup Held(warm')
    BY <1>3, PromoteStep
  <2> QED
    BY <2>1, <2>5, <2>6, SameContents
<1> QED
  BY <1>1, <1>2, <1>3

LEMMA RemoveTakesOne ==
    ASSUME Inv, NEW k \in Keys, Remove(k)
    PROVE  Contents' = Forget(Contents, k)
<1>1. Inv'
  BY RemoveStep
<1>2. /\ Held(hot') \cup Held(warm') = (Held(hot) \cup Held(warm)) \ {k}
      /\ \A j \in Keys \ {k} : latest'[j] = latest[j]
  <2>1. /\ Held(Forget(hot, k)) = Held(hot) \ {k}
        /\ Held(Forget(warm, k)) = Held(warm) \ {k}
    BY InvFacts, ForgetStep
  <2>2. /\ Held(hot') = Held(hot) \ {k}
        /\ Held(warm') = Held(warm) \ {k}
        /\ latest' = Forget(latest, k)
    BY <2>1, InvFacts DEF Remove
  <2> QED
    BY <2>2, InvFacts DEF Typed, Forget
<1> QED
  BY <1>1, <1>2, ContentsFresh, ContentsFreshNext DEF Fresh, Forget

\* A put that loses nothing had room, for the tiers are within their capacities;
\* one that loses an entry found both full.
LEMMA PutAdmits ==
    ASSUME Inv, NEW k \in Keys, NEW v \in Values, Put(k, v)
    PROVE  Contents' \in AfterPut(Contents, Room, k, v)
<1> DEFINE H == Held(hot) \cup Held(warm)
           next == Held(hot') \cup Held(warm')
           w == Forget(warm, k)
<1>1. Inv' /\ k \in Held(hot') /\ LostAtMostOne(hot, w, k)
  BY PutStep
<1>2. /\ Fresh /\ Fresh'
      /\ Contents = [j \in Keys |-> IF j \in H THEN latest[j] ELSE NoValue]
      /\ Contents' = [j \in Keys |-> IF j \in next THEN latest'[j] ELSE NoValue]
      /\ Held(Contents) = H /\ Held(Contents') = next
      /\ Held(w) = Held(warm) \ {k}
  BY <1>1, ContentsFresh, ContentsFreshNext, WithoutKey DEF Fresh
<1>3. latest'[k] = v /\ \A j \in Keys \ {k} : latest'[j] = latest[j]
  BY InvFacts DEF Put, Typed, Store
<1>4. Room' = Room /\ Room \in Nat \ {0}
  <2>1. config' = config
    BY DEF Put
  <2> QED
    BY <2>1, InvFacts, ConfigType DEF Room, AtLeast1
<1>5. next \subseteq H \cup {k} /\ k \in next
  <2>1. /\ Insert(hot, w, k, Entry(v, 1)) /\ Entry(v, 1) \in EntrySet
    BY TieredAssumption DEF Put, Entry, EntrySet
  <2>2. Sound(hot, w) /\ k \notin Held(w)
    BY WithoutKey
  <2>3. Entered(hot, w, k, Entry(v, 1))
    BY <2>1, <2>2, InvFacts, InsertStep
  <2> QED
    BY <1>1, <1>2, <2>3 DEF Entered
<1>6. CASE Held(hot) \cup Held(w) \subseteq next
  <2>1. next = H \cup {k}
    BY <1>2, <1>5, <1>6
  <2>2. k \in H \/ HeldCount(Contents) < Room
    <3> SUFFICES ASSUME k \notin H PROVE HeldCount(Contents) < Room
      OBVIOUS
    <3>1. IsFiniteSet(H)
      BY InvFacts, FS_Union DEF Finite
    <3>2. Cardinality(H \cup {k}) = Cardinality(H) + 1
      BY <3>1, FS_AddElement
    <3>3. HeldCount(Contents)' = HeldCount(Contents) + 1
      BY <1>2, <2>1, <3>2 DEF HeldCount
    <3> QED
      BY <1>2, <1>4, <3>3 DEF Fresh
  <2>3. Contents' = Store(Contents, k, v)
    BY <1>2, <1>3, <2>1 DEF Store
  <2> QED
    BY <1>2, <2>2, <2>3 DEF AfterPut
<1>7. CASE ~ (Held(hot) \cup Held(w) \subseteq next)
  <2>1. /\ \E lost \in Held(w) : (Held(hot) \cup Held(w)) \ next = {lost}
        /\ k \notin Held(hot)
        /\ Held(hot) # {} /\ HeldCount(hot) >= config.hot
        /\ Held(w) # {} /\ HeldCount(w) >= config.warm
    BY <1>1, <1>7 DEF LostAtMostOne
  <2>2. k \notin H
    <3>1. k \notin Held(warm)
      BY <2>1, RoomForKey DEF Evicts
    <3> QED
      BY <2>1, <3>1
  <2>3. ~ (HeldCount(Contents) < Room)
    <3>1. HeldCount(w) = HeldCount(warm) /\ Held(w) = Held(warm)
      BY <1>2, <2>2, WithoutKey, InvFacts DEF One
    <3>2. /\ HeldCount(hot) \in Nat \ {0} /\ HeldCount(warm) \in Nat \ {0}
          /\ config.hot \in Nat /\ config.warm \in Nat
      BY <2>1, <3>1, InvFacts, CountType, ConfigType
    <3>3. HeldCount(hot) >= AtLeast1(config.hot) /\ HeldCount(warm) >= AtLeast1(config.warm)
      BY <2>1, <3>1, <3>2 DEF AtLeast1
    <3> QED
      BY <1>2, <3>2, <3>3 DEF Fresh, Room, AtLeast1
  <2>4. PICK lost \in Held(w) : (Held(hot) \cup Held(w)) \ next = {lost}
    BY <2>1
  <2>5. next = (H \ {lost}) \cup {k} /\ lost \in H /\ lost # k
    BY <1>2, <1>5, <2>2, <2>4
  <2>6. Contents' = Store(Forget(Contents, lost), k, v)
    BY <1>2, <1>3, <2>5 DEF Store, Forget, Held
  <2> QED
    BY <1>2, <1>4, <2>2, <2>3, <2>5, <2>6 DEF AfterPut
<1> QED
  BY <1>6, <1>7

\* A store of two tiers is one map of bounded size to its callers (tiered.rs, get,
\* put, remove, clear): a spill, a promotion or an eviction on the way is never
\* seen but as the loss of one other key, to a put of a new key that found both
\* tiers full.
THEOREM TiersAreOneMap == Spec => Contents = EmptyMap /\ [][MapStep]_vars
<1>1. Init => Contents = EmptyMap
  BY DEF Init, Contents, Held, EmptyMap
<1>2. Inv /\ [Next]_vars => [MapStep]_vars
  <2> SUFFICES ASSUME Inv, Next PROVE MapStep
    OBVIOUS
  <2>1. ASSUME NEW k \in Keys, GetHot(k) \/ GetPromote(k) \/ GetWarm(k)
        PROVE  Contents' = Contents
    BY <2>1, GetsKeepContents
  <2>2. ASSUME NEW k \in Keys, Remove(k) PROVE Contents' = Forget(Contents, k)
    BY <2>2, RemoveTakesOne
  <2>3. ASSUME NEW k \in Keys, NEW v \in Values, Put(k, v)
        PROVE  Contents' \in AfterPut(Contents, Room, k, v)
    BY <2>3, PutAdmits
  <2>4. Clear => Contents' = EmptyMap
    BY DEF Clear, Contents, Held, EmptyMap
  <2>5. config' = config
    BY DEF Next, GetHot, GetPromote, GetWarm, Put, Remove, Clear
  <2>6. Room' = Room
    BY <2>5 DEF Room, AtLeast1
  <2> QED
    BY <2>1, <2>2, <2>3, <2>4, <2>6 DEF MapStep
<1> QED
  BY <1>1, <1>2, Invariance, PTL DEF Spec

=============================================================================
