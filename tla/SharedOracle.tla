---------------------------- MODULE SharedOracle -----------------------------
(***************************************************************************)
(* The lock-free oracle (oracle.rs, AtomicSketch and SharedOracle) under   *)
(* threads that record, ask and reset at once.  Every access to an atomic  *)
(* is a step; fetch_update is a load and then compare-and-swaps, each of   *)
(* which either installs the update or takes the value it found and tries  *)
(* again.  The steps interleave in one order: that Relaxed accesses also   *)
(* let a thread see two locations change in another order is left out.     *)
(***************************************************************************)
EXTENDS Transitions, Functions

CONSTANTS
    Threads,
    Resetters,   \* those of the threads that call reset
    NotedBound   \* bound: how far the history counts the transitions seen

ASSUME OracleAssumption ==
    /\ Resetters \subseteq Threads
    /\ NotedBound \in Nat /\ NotedBound >= Threshold

VARIABLES
    table,     \* the counters
    lastKey,   \* 0 where there is none
    counter,   \* transitions counted; bound: modulo AgePeriod, as it is used
    me,        \* each thread's place in its call, and its locals
    noted,     \* history: transitions seen, by column of row 0
    owed,      \* history: those of them that have to be in the table still
    clean,     \* history: threads whose add no halving or reset has met
    recent,    \* history: columns of row 0 a reset may leave in the table: their
               \* transitions were seen after it began, or being added then
    older      \* history: the last key was accessed before the last reset began

vars == <<table, lastKey, counter, me, noted, owed, clean, recent, older>>

Places ==
    {"idle", "addLoad", "addSwap", "count", "halveLoad", "halveSwap",
     "read", "told", "clear", "clearKey", "clearCount"}

Cells == 0 .. Depth * Width - 1          \* the flattened table
CellOf(h, i) == i * Width + Index(h, i)

At(place, hash, n, v) == [at |-> place, hash |-> hash, pos |-> n, val |-> v]
Idle == At("idle", 0, 0, 0)

Init ==
    /\ table = [n \in Cells |-> 0]
    /\ lastKey = 0
    /\ counter = 0
    /\ me = [t \in Threads |-> Idle]
    /\ noted = [c \in Columns |-> 0]
    /\ owed = [c \in Columns |-> 0]
    /\ clean = {}
    /\ recent = {}
    /\ older = FALSE

-----------------------------------------------------------------------------
Go(t, m) == me' = [me EXCEPT ![t] = m]
Bumped(f, c, max) == [f EXCEPT ![c] = SaturatingAdd(@, 1, max)]

\* Threads in a halving or a reset: what they overlap with may be lost.
Sweeping == {"halveLoad", "halveSwap", "clear", "clearKey", "clearCount"}
Undisturbed == \A u \in Threads : me[u].at \notin Sweeping

\* Threads in adds, whose columns a reset finds under way, and in resets that
\* have still to store the last key.
Adders == {u \in Threads : me[u].at \in {"addLoad", "addSwap"}}
Forgetting == {u \in Threads : me[u].at \in {"clear", "clearKey"}}

\* record: the swap of the last key, which says what the transition is from.
Record(t, h) ==
    LET link == Link(lastKey, h)
    IN  /\ me[t].at = "idle"
        /\ lastKey' = h
        /\ IF lastKey = 0
           THEN UNCHANGED <<me, noted, clean>>
           ELSE /\ Go(t, At("addLoad", link, 0, 0))
                /\ noted' = Bumped(noted, Index(link, 0), NotedBound)
                /\ clean' = IF Undisturbed THEN clean \cup {t} ELSE clean
        /\ recent' = IF lastKey = 0 \/ (older /\ Forgetting = {}) THEN recent
                     ELSE recent \cup {Index(link, 0)}
        /\ older' = FALSE
        /\ UNCHANGED <<table, counter, owed>>

\* AtomicSketch::add, a row at a time.
AddLoad(t) ==
    /\ me[t].at = "addLoad"
    /\ Go(t, [me[t] EXCEPT !.at = "addSwap",
                           !.val = table[CellOf(me[t].hash, me[t].pos)]])
    /\ UNCHANGED <<table, lastKey, counter, noted, owed, clean, recent, older>>

RowDone(t) ==
    IF me[t].pos = Depth - 1
    THEN Go(t, At("count", me[t].hash, 0, 0))
    ELSE Go(t, At("addLoad", me[t].hash, me[t].pos + 1, 0))

\* Mutant: a swap that fails adds all the same before it is tried again.
AddSwapTwice(t) ==
    LET n == CellOf(me[t].hash, me[t].pos)
    IN  /\ me[t].at = "addSwap"
        /\ table' = [table EXCEPT ![n] = SaturatingAdd(@, 1, CounterMax)]
        /\ IF table[n] = me[t].val
           THEN RowDone(t)
           ELSE Go(t, [me[t] EXCEPT !.val = table'[n]])
        /\ UNCHANGED <<lastKey, counter, noted, owed, clean, recent, older>>

\* Mutant: load, check, store.
AddSwapBlind(t) ==
    /\ me[t].at = "addSwap"
    /\ RowDone(t)
    /\ table' = [table EXCEPT ![CellOf(me[t].hash, me[t].pos)] =
                   SaturatingAdd(me[t].val, 1, CounterMax)]
    /\ UNCHANGED <<lastKey, counter, noted, owed, clean, recent, older>>

\* Mutant: a swap that fails is tried again with the same old value.
AddSwapStale(t) ==
    LET n == CellOf(me[t].hash, me[t].pos)
    IN  /\ me[t].at = "addSwap"
        /\ IF table[n] = me[t].val \/ me[t].val = CounterMax
           THEN /\ RowDone(t)
                /\ table' = [table EXCEPT ![n] = SaturatingAdd(@, 1, CounterMax)]
           ELSE UNCHANGED <<me, table>>
        /\ UNCHANGED <<lastKey, counter, noted, owed, clean, recent, older>>

AddSwap(t) ==
    LET n == CellOf(me[t].hash, me[t].pos)
    IN  /\ me[t].at = "addSwap"
        /\ IF me[t].val = CounterMax
           THEN RowDone(t) /\ UNCHANGED table
           ELSE IF table[n] = me[t].val
           THEN RowDone(t) /\ table' = [table EXCEPT ![n] = @ + 1]
           ELSE Go(t, [me[t] EXCEPT !.val = table[n]]) /\ UNCHANGED table
        /\ UNCHANGED <<lastKey, counter, noted, owed, clean, recent, older>>

\* The transition is counted, and whoever counts a multiple of the period ages
\* the table before it returns.
Credited(t) ==
    IF t \in clean THEN Bumped(owed, Index(me[t].hash, 0), CounterMax) ELSE owed

\* Mutant: nobody ages the table.
CountOnly(t) ==
    /\ me[t].at = "count"
    /\ counter' = (counter + 1) % AgePeriod
    /\ Go(t, Idle)
    /\ owed' = Credited(t)
    /\ clean' = clean \ {t}
    /\ UNCHANGED <<table, lastKey, noted, recent, older>>

Count(t) ==
    LET due == counter % AgePeriod = 0
    IN  /\ me[t].at = "count"
        /\ counter' = (counter + 1) % AgePeriod
        /\ Go(t, IF due THEN At("halveLoad", 0, 0, 0) ELSE Idle)
        /\ owed' = [c \in Columns |->
                      IF due THEN Credited(t)[c] \div 2 ELSE Credited(t)[c]]
        /\ clean' = IF due THEN {} ELSE clean \ {t}
        /\ UNCHANGED <<table, lastKey, noted, recent, older>>

\* AtomicSketch::halve, a cell at a time.
HalveLoad(t) ==
    /\ me[t].at = "halveLoad"
    /\ Go(t, [me[t] EXCEPT !.at = "halveSwap", !.val = table[me[t].pos]])
    /\ UNCHANGED <<table, lastKey, counter, noted, owed, clean, recent, older>>

\* Mutant: load, halve, store.
HalveSwapBlind(t) ==
    LET n == me[t].pos
    IN  /\ me[t].at = "halveSwap"
        /\ table' = [table EXCEPT ![n] = me[t].val \div 2]
        /\ Go(t, IF n = Depth * Width - 1 THEN Idle ELSE At("halveLoad", 0, n + 1, 0))
        /\ UNCHANGED <<lastKey, counter, noted, owed, clean, recent, older>>

HalveSwap(t) ==
    LET n == me[t].pos
    IN  /\ me[t].at = "halveSwap"
        /\ IF table[n] = me[t].val
           THEN /\ table' = [table EXCEPT ![n] = @ \div 2]
                /\ Go(t, IF n = Depth * Width - 1 THEN Idle
                         ELSE At("halveLoad", 0, n + 1, 0))
           ELSE Go(t, [me[t] EXCEPT !.val = table[n]]) /\ UNCHANGED table
        /\ UNCHANGED <<lastKey, counter, noted, owed, clean, recent, older>>

\* should_prefetch: the least of the rows' counters, read one after another.
Ask(t, from, to) ==
    /\ me[t].at = "idle"
    /\ Go(t, At("read", Link(from, to), 0, CounterMax))
    /\ UNCHANGED <<table, lastKey, counter, noted, owed, clean, recent, older>>

Read(t) ==
    LET v == table[CellOf(me[t].hash, me[t].pos)]
        low == IF v < me[t].val THEN v ELSE me[t].val
    IN  /\ me[t].at = "read"
        /\ Go(t, IF me[t].pos = Depth - 1
                 THEN At("told", me[t].hash, 0, low)
                 ELSE At("read", me[t].hash, me[t].pos + 1, low))
        /\ UNCHANGED <<table, lastKey, counter, noted, owed, clean, recent, older>>

Recommended(t) == me[t].at = "told" /\ me[t].val >= Threshold

Return(t) ==
    /\ me[t].at = "told"
    /\ Go(t, Idle)
    /\ UNCHANGED <<table, lastKey, counter, noted, owed, clean, recent, older>>

\* reset: the cells, then the last key, then the counter.
Reset(t) ==
    /\ t \in Resetters
    /\ me[t].at = "idle"
    /\ Go(t, At("clear", 0, 0, 0))
    /\ owed' = [c \in Columns |-> 0]
    /\ clean' = {}
    /\ recent' = {Index(me[u].hash, 0) : u \in Adders}
    /\ older' = TRUE
    /\ UNCHANGED <<table, lastKey, counter, noted>>

ClearCell(t) ==
    /\ me[t].at = "clear"
    /\ table' = [table EXCEPT ![me[t].pos] = 0]
    /\ Go(t, IF me[t].pos = Depth * Width - 1 THEN At("clearKey", 0, 0, 0)
             ELSE At("clear", 0, me[t].pos + 1, 0))
    /\ UNCHANGED <<lastKey, counter, noted, owed, clean, recent, older>>

ClearKey(t) ==
    /\ me[t].at = "clearKey"
    /\ lastKey' = 0
    /\ Go(t, At("clearCount", 0, 0, 0))
    /\ UNCHANGED <<table, counter, noted, owed, clean, recent, older>>

ClearCount(t) ==
    /\ me[t].at = "clearCount"
    /\ counter' = 0
    /\ Go(t, Idle)
    /\ UNCHANGED <<table, lastKey, noted, owed, clean, recent, older>>

\* The steps of a call under way.
Step(t) ==
    \/ AddLoad(t) \/ AddSwap(t) \/ Count(t) \/ HalveLoad(t) \/ HalveSwap(t)
    \/ Read(t) \/ Return(t)
    \/ ClearCell(t) \/ ClearKey(t) \/ ClearCount(t)

Next ==
    \E t \in Threads :
        \/ Step(t)
        \/ \E h \in Inputs : Record(t, h)
        \/ \E from, to \in Inputs : Ask(t, from, to)
        \/ Reset(t)

\* No step waits: a thread inside a call takes its steps as it is scheduled.
Spec == Init /\ [][Next]_vars /\ \A t \in Threads : WF_vars(Step(t))

-----------------------------------------------------------------------------
\* The state of the oracle keeps its type.
TypeOK ==
    /\ table \in [Cells -> Counters]
    /\ lastKey \in Inputs \cup {0}
    /\ counter \in 0 .. AgePeriod - 1
    /\ me \in [Threads -> [at : Places, hash : Hashes,
                           pos : Cells, val : Counters]]

\* No advice without reason (oracle.rs, should_prefetch): though it reads the
\* rows one after another while others add, halve and clear, it recommends a
\* prefetch only if Threshold transitions of that column have been seen.
PrefetchIsJustified ==
    \A t \in Threads :
        Recommended(t) => noted[Index(me[t].hash, 0)] >= Threshold

\* No increment is lost to another (oracle.rs, add: "atomic saturating
\* increment"): a transition whose add met no halving or reset is in every row
\* of the table, halved as often as the table has been since.
CreditIsKept ==
    \A h \in Hashes, i \in Rows : table[CellOf(h, i)] >= owed[Index(h, 0)]

\* Aging keeps up (oracle.rs, record): a row never holds more than one period's
\* counts beyond those counted since the last period ended, one period more for
\* each thread that has still to finish a halving, and the adds under way.  So
\* no thread that lags in its halving lets the others run away.
Counted == (counter + AgePeriod - 1) % AgePeriod
Halving == {t \in Threads : me[t].at \in {"halveLoad", "halveSwap"}}
Adding == {t \in Threads : me[t].at \in {"addLoad", "addSwap", "count"}}

AgingKeepsUp ==
    \A i \in Rows :
        FoldFunctionOnSet(+, 0, table, {i * Width + c : c \in Columns})
            <= AgePeriod + Counted
                 + AgePeriod * Cardinality(Halving) + Cardinality(Adding)

\* A reset forgets (oracle.rs, SharedOracle::reset): of a column whose
\* transitions were neither being added when the last reset began nor seen since,
\* from a key accessed since or while a reset was still to clear the last key,
\* nothing is in the table but what a reset has still to clear.  So no halving or
\* add that lags brings back what a reset has cleared.
ResetForgets ==
    \A h \in Hashes, i \in Rows :
        \/ Index(h, 0) \in recent
        \/ table[CellOf(h, i)] = 0
        \/ \E t \in Threads : me[t].at = "clear" /\ me[t].pos <= CellOf(h, i)

\* Transitions are lost "under extreme contention" (README.md), so not by a
\* thread that is alone: while it has seen fewer than a period's transitions, and
\* nobody resets, every one of them is in the table.
NothingIsLostAlone ==
    ( /\ Cardinality(Threads) = 1 /\ Resetters = {}
      /\ \A t \in Threads : me[t] = Idle
      /\ FoldFunction(+, 0, noted) < Min({AgePeriod, NotedBound}) )
      => \A h \in Hashes, i \in Rows : table[CellOf(h, i)] >= noted[Index(h, 0)]

\* Lock-freedom (oracle.rs, "no mutex"): unless all calls end for good, calls
\* keep ending.  A single call may be overtaken for ever.
SomeCallEnds ==
    \E t \in Threads : me[t].at # "idle" /\ me'[t].at = "idle"
LockFree ==
    <>[](\A t \in Threads : me[t].at = "idle") \/ []<><<SomeCallEnds>>_vars

=============================================================================
