------------------------- MODULE SharedOracle_proofs -------------------------
(***************************************************************************)
(* Proofs about the lock-free oracle, for any threads, keys, mixing of     *)
(* hashes, threshold, period and sketch size.  None of its properties is   *)
(* inductive; what they rest on, while steps of any threads interleave:    *)
(*                                                                         *)
(*   - no advice without reason: a transition is noted before it is added, *)
(*     so a counter WITH the adds that have still to reach it is no        *)
(*     greater than what was noted of its column;                          *)
(*   - no increment is lost: what is owed is in a counter still after all  *)
(*     the halvings that have yet to reach it, and an add that counts as   *)
(*     clean is beside no halving, so that it has swapped where it loaded; *)
(*   - aging keeps up: the bound that allows a row one period more per     *)
(*     halver holds for EVERY set of the halvings under way, the counts    *)
(*     being taken as those in the set will leave them.  A step of one     *)
(*     halver on one cell changes no such prospect, and the one who is     *)
(*     through leaves a bound that already was one of those.               *)
(***************************************************************************)
EXTENDS SharedOracle, Counting

-----------------------------------------------------------------------------
(* Columns.                                                                *)

\* Hashing lands on a column of the row.
LEMMA IndexInRange ==
    ASSUME NEW h \in Hashes, NEW i \in Rows
    PROVE  Index(h, i) \in Columns
<1>1. (h + i * Golden) \in Nat
  BY SketchAssumption DEF Hashes, Rows
<1>2. ((h + i * Golden) % Word) \in Nat
  BY <1>1, SketchAssumption
<1> QED
  BY <1>2, SketchAssumption DEF Index, Columns

\* Two hashes share a column of a row exactly if they agree modulo the width,
\* whichever the row: no row separates what another confuses (sketch.rs, index).
LEMMA RowsCollideAlike ==
    ASSUME NEW h \in Hashes, NEW g \in Hashes, NEW i \in Rows
    PROVE  Index(h, i) = Index(g, i) <=> h % Width = g % Width
<1> DEFINE c == i * Golden
<1>1. /\ h \in Nat /\ g \in Nat /\ c \in Nat
      /\ Width \in Nat \ {0} /\ Word \in Nat \ {0} /\ Word % Width = 0
  BY SketchAssumption DEF Hashes, Rows
<1>2. /\ Index(h, i) = ((h + c) % Word) % Width
      /\ Index(g, i) = ((g + c) % Word) % Width
  BY DEF Index
<1> HIDE DEF c
<1>3. h + c \in Nat /\ g + c \in Nat
  BY <1>1
<1>4. Index(h, i) = (h + c) % Width /\ Index(g, i) = (g + c) % Width
  <2>1. ((h + c) % Word) % Width = (h + c) % Width
    BY <1>1, <1>3, ModMod
  <2>2. ((g + c) % Word) % Width = (g + c) % Width
    BY <1>1, <1>3, ModMod
  <2> QED
    BY <1>2, <2>1, <2>2
<1>5. Congruent(h, g, Width) => Congruent(h + c, g + c, Width)
  BY <1>1, ModShift
<1>6. Congruent(h + c, g + c, Width) => Congruent(h, g, Width)
  BY <1>1, ModCancel
<1> QED
  BY <1>4, <1>5, <1>6 DEF Congruent

-----------------------------------------------------------------------------
(* Cells.                                                                  *)

Cell(i, c) == i * Width + c

\* The flattened table keeps rows and columns apart.
LEMMA CellsApart ==
    ASSUME NEW i \in Rows, NEW c \in Columns
    PROVE  /\ Cell(i, c) \in Cells
           /\ \A j \in Rows, d \in Columns : Cell(i, c) = Cell(j, d) => i = j /\ c = d
<1>1. Width \in Nat \ {0} /\ Depth \in Nat \ {0} /\ i \in Nat /\ c \in Nat /\ c < Width /\ i <= Depth - 1
  BY SketchAssumption DEF Rows, Columns
<1>2. Cell(i, c) \in Cells
  <2>1. i * Width <= (Depth - 1) * Width /\ (Depth - 1) * Width = Depth * Width - Width
    BY <1>1
  <2>2. i * Width \in Nat /\ Depth * Width \in Nat
    BY <1>1
  <2> QED
    BY <1>1, <2>1, <2>2 DEF Cell, Cells
<1>3. ASSUME NEW j \in Rows, NEW d \in Columns, Cell(i, c) = Cell(j, d)
      PROVE  i = j /\ c = d
  <2>1. j \in Nat /\ d \in Nat /\ d < Width
    BY SketchAssumption DEF Rows, Columns
  <2>2. i * Width + c = j * Width + d /\ i * Width \in Nat /\ j * Width \in Nat
    BY <1>1, <1>3, <2>1 DEF Cell
  <2>3. ASSUME i < j
        PROVE  FALSE
    <3>1. (i + 1) * Width <= j * Width /\ (i + 1) * Width = i * Width + Width
      BY <1>1, <2>1, <2>3
    <3> QED
      BY <1>1, <2>1, <2>2, <3>1
  <2>4. ASSUME j < i
        PROVE  FALSE
    <3>1. (j + 1) * Width <= i * Width /\ (j + 1) * Width = j * Width + Width
      BY <1>1, <2>1, <2>4
    <3> QED
      BY <1>1, <2>1, <2>2, <3>1
  <2> QED
    BY <1>1, <2>1, <2>2, <2>3, <2>4
<1> QED
  BY <1>2, <1>3

\* Two hashes share a cell of the table if they share the column of row 0.
LEMMA CellOfFacts ==
    ASSUME NEW h \in Hashes, NEW i \in Rows
    PROVE  /\ Index(h, i) \in Columns /\ Index(h, 0) \in Columns /\ 0 \in Rows
           /\ CellOf(h, i) \in Cells
           /\ \A g \in Hashes, j \in Rows :
                CellOf(h, i) = CellOf(g, j) <=> i = j /\ Index(h, 0) = Index(g, 0)
<1>1. 0 \in Rows
  BY SketchAssumption DEF Rows
<1>2. \A g \in Hashes, j \in Rows :
        /\ Index(g, j) \in Columns
        /\ CellOf(g, j) = Cell(j, Index(g, j))
  BY IndexInRange DEF CellOf, Cell
<1>3. CellOf(h, i) \in Cells
  BY <1>2, CellsApart
<1>4. ASSUME NEW g \in Hashes, NEW j \in Rows
      PROVE  CellOf(h, i) = CellOf(g, j) <=> i = j /\ Index(h, 0) = Index(g, 0)
  <2>1. CellOf(h, i) = CellOf(g, j) <=> i = j /\ Index(h, i) = Index(g, j)
    BY <1>2, CellsApart
  <2>2. Index(h, i) = Index(g, i) <=> Index(h, 0) = Index(g, 0)
    BY <1>1, RowsCollideAlike
  <2> QED
    BY <2>1, <2>2
<1> QED
  BY <1>1, <1>2, <1>3, <1>4

-----------------------------------------------------------------------------
(* Types, and places in the table.                                         *)

\* The history variables keep their types.
HistoryType ==
    /\ noted \in [Columns -> 0 .. NotedBound]
    /\ owed \in [Columns -> Counters]
    /\ clean \subseteq Threads

\* A thread that adds or reads is at a row, the others count cells.
Placed ==
    \A t \in Threads : me[t].at \in {"addLoad", "addSwap", "read"} => me[t].pos \in Rows

\* However many threads there are, finitely many are in a call.
Busy == {t \in Threads : me[t].at # "idle"}

Types == TypeOK /\ HistoryType /\ Placed /\ IsFiniteSet(Busy)

\* What the assumptions on the constants come to.
LEMMA ConstantFacts ==
    /\ 0 \in Hashes /\ 0 \in Cells /\ 0 \in Rows /\ 0 \in Counters /\ 0 \in Columns
    /\ CounterMax \in Counters /\ CounterMax \in Nat /\ Counters \subseteq Nat
    /\ Rows \subseteq Cells /\ Depth \in Nat /\ Width \in Nat \ {0} /\ Depth * Width \in Nat
    /\ NotedBound \in Nat /\ AgePeriod \in Nat \ {0} /\ Inputs \subseteq Hashes
    /\ 0 \in 0 .. NotedBound /\ 0 \in 0 .. AgePeriod - 1
<1>1. Depth * Width \in Nat /\ Depth * Width >= Depth
  <2>1. Depth * 1 <= Depth * Width
    BY SketchAssumption
  <2> QED
    BY SketchAssumption, <2>1
<1> QED
  BY <1>1, SketchAssumption, TransitionAssumption, OracleAssumption
  DEF Hashes, Cells, Rows, Counters, Columns

LEMMA LinkIsHash ==
    \A from \in Hashes, to \in Hashes : Link(from, to) \in Hashes
  BY TransitionAssumption DEF Link

\* A thread's place and locals.
Local == [at : Places, hash : Hashes, pos : Cells, val : Counters]

LEMMA TypesInit == Init => Types
<1> SUFFICES ASSUME Init
             PROVE  Types
  OBVIOUS
<1>1. TypeOK /\ HistoryType
  BY ConstantFacts DEF Init, TypeOK, HistoryType, Idle, At, Places
<1>2. Placed
  BY DEF Init, Placed, Idle, At
<1>3. Busy = {}
  BY DEF Init, Busy, Idle, At
<1> QED
  BY <1>1, <1>2, <1>3, FS_EmptySet DEF Types

\* A thread's own place is all that a step changes of the threads.
LEMMA GoTypes ==
    ASSUME Types, NEW t \in Threads, NEW m \in Local, Go(t, m),
           m.at \in {"addLoad", "addSwap", "read"} => m.pos \in Rows
    PROVE  /\ me' \in [Threads -> Local]
           /\ Placed' /\ IsFiniteSet(Busy')
<1>1. me \in [Threads -> Local] /\ me' = [me EXCEPT ![t] = m]
  BY DEF Types, TypeOK, Go, Local
<1>2. me' \in [Threads -> Local] /\ \A u \in Threads : me'[u] = IF u = t THEN m ELSE me[u]
  BY <1>1
<1>3. Placed'
  BY <1>2 DEF Types, Placed
<1>4. Busy \ {t} = (Busy') \ {t}
  BY <1>2 DEF Busy
<1> QED
  BY <1>2, <1>3, <1>4, OneMoreOrLess DEF Types
\* What the types say of one thread.
LEMMA TypesAt ==
    ASSUME Types, NEW t \in Threads
    PROVE  /\ me[t] \in Local /\ me \in [Threads -> Local]
           /\ table \in [Cells -> Counters] /\ counter \in 0 .. AgePeriod - 1
           /\ noted \in [Columns -> 0 .. NotedBound] /\ owed \in [Columns -> Counters]
           /\ clean \subseteq Threads /\ lastKey \in Inputs \cup {0}
           /\ me[t].at \in {"addLoad", "addSwap", "read"} =>
                me[t].pos \in Rows /\ CellOf(me[t].hash, me[t].pos) \in Cells
<1>1. me[t].at \in {"addLoad", "addSwap", "read"} => me[t].pos \in Rows
  BY DEF Types, Placed
<1>2. me \in [Threads -> Local] /\ me[t] \in Local /\ me[t].hash \in Hashes
  BY DEF Types, TypeOK, Local
<1> QED
  BY <1>1, <1>2, CellOfFacts DEF Types, TypeOK, HistoryType

LEMMA AtLocal ==
    ASSUME NEW p \in Places, NEW h \in Hashes, NEW n \in Cells, NEW v \in Counters
    PROVE  /\ At(p, h, n, v) \in Local
           /\ At(p, h, n, v).at = p /\ At(p, h, n, v).pos = n
           /\ At(p, h, n, v).hash = h /\ At(p, h, n, v).val = v
  BY DEF At, Local

LEMMA BumpedType ==
    ASSUME NEW max \in Nat, NEW f \in [Columns -> 0 .. max], NEW c \in Columns
    PROVE  /\ Bumped(f, c, max) \in [Columns -> 0 .. max]
           /\ \A d \in Columns \ {c} : Bumped(f, c, max)[d] = f[d]
           /\ Bumped(f, c, max)[c] = IF f[c] + 1 > max THEN max ELSE f[c] + 1
<1>1. SaturatingAdd(f[c], 1, max) \in 0 .. max
  BY DEF SaturatingAdd
<1> QED
  BY <1>1 DEF Bumped, SaturatingAdd

LEMMA RowDoneTypes ==
    ASSUME Types, NEW t \in Threads, me[t].at = "addSwap", RowDone(t)
    PROVE  me' \in [Threads -> Local] /\ Placed' /\ IsFiniteSet(Busy')
<1>1. me[t] \in Local /\ me[t].hash \in Hashes /\ me[t].pos \in Rows
  BY TypesAt DEF Local
<1>2. CASE me[t].pos = Depth - 1
  <2> DEFINE m == At("count", me[t].hash, 0, 0)
  <2>1. m \in Local /\ m.at = "count"
    BY <1>1, ConstantFacts, AtLocal DEF Places
  <2>2. Go(t, m)
    BY <1>2 DEF RowDone
  <2> HIDE DEF m
  <2> QED
    BY <2>1, <2>2, GoTypes
<1>3. CASE me[t].pos # Depth - 1
  <2> DEFINE m == At("addLoad", me[t].hash, me[t].pos + 1, 0)
  <2>1. me[t].pos + 1 \in Rows
    BY <1>1, <1>3, ConstantFacts DEF Rows
  <2>2. m \in Local /\ m.pos \in Rows
    BY <1>1, <2>1, ConstantFacts, AtLocal DEF Places
  <2>3. Go(t, m)
    BY <1>3 DEF RowDone
  <2> HIDE DEF m
  <2> QED
    BY <2>2, <2>3, GoTypes
<1> QED
  BY <1>2, <1>3

LEMMA StepTypes ==
    ASSUME Types, NEW t \in Threads, Step(t)
    PROVE  Types'
<1>1. /\ me[t] \in Local /\ me[t].hash \in Hashes /\ me[t].pos \in Cells
      /\ me[t].val \in Counters
      /\ me[t].at \in {"addLoad", "addSwap", "read"} =>
           me[t].pos \in Rows /\ CellOf(me[t].hash, me[t].pos) \in Cells
  BY TypesAt DEF Local
<1>2. /\ table \in [Cells -> Counters] /\ counter \in 0 .. AgePeriod - 1
      /\ noted \in [Columns -> 0 .. NotedBound] /\ owed \in [Columns -> Counters]
      /\ clean \subseteq Threads /\ lastKey \in Inputs \cup {0}
  BY TypesAt
<1> DEFINE Moved == me' \in [Threads -> Local] /\ Placed' /\ IsFiniteSet(Busy')
<1>3. SUFFICES /\ Moved /\ HistoryType'
               /\ table' \in [Cells -> Counters] /\ counter' \in 0 .. AgePeriod - 1
               /\ lastKey' \in Inputs \cup {0}
  BY DEF Types, TypeOK, Local
<1>4. HistoryType
  BY DEF Types
<1>5. CASE AddLoad(t)
  <2> DEFINE m == [me[t] EXCEPT !.at = "addSwap",
                           !.val = table[CellOf(me[t].hash, me[t].pos)]]
  <2>1. m \in Local /\ m.pos \in Rows
    BY <1>1, <1>2, <1>5 DEF AddLoad, Local, Places
  <2>2. Go(t, m)
    BY <1>5 DEF AddLoad
  <2> HIDE DEF m
  <2>3. Moved
    BY <2>1, <2>2, GoTypes
  <2> QED
    BY <2>3, <1>2, <1>4, <1>5 DEF AddLoad, HistoryType
<1>6. CASE AddSwap(t)
  <2> DEFINE n == CellOf(me[t].hash, me[t].pos)
             m == [me[t] EXCEPT !.val = table[n]]
  <2>1. n \in Cells /\ table[n] \in Counters /\ me[t].at = "addSwap"
    BY <1>1, <1>2, <1>6 DEF AddSwap
  <2>2. \/ RowDone(t) /\ table' = table
        \/ RowDone(t) /\ table' = [table EXCEPT ![n] = @ + 1] /\ table[n] # CounterMax
        \/ Go(t, m) /\ table' = table
    <3>1. CASE me[t].val = CounterMax
      BY <1>6, <3>1 DEF AddSwap, RowDone, Go
    <3>2. CASE me[t].val # CounterMax /\ table[n] = me[t].val
      BY <1>6, <3>2 DEF AddSwap, RowDone, Go
    <3>3. CASE me[t].val # CounterMax /\ table[n] # me[t].val
      BY <1>6, <3>3 DEF AddSwap
    <3> QED
      BY <3>1, <3>2, <3>3
  <2>3. m \in Local /\ m.pos \in Rows
    BY <1>1, <2>1 DEF Local
  <2>4. table[n] # CounterMax => table[n] + 1 \in Counters
    BY <2>1, ConstantFacts DEF Counters
  <2> HIDE DEF m, n
  <2>5. RowDone(t) => Moved
    BY <2>1, RowDoneTypes
  <2>6. Go(t, m) => Moved
    BY <2>3, GoTypes
  <2>7. table' \in [Cells -> Counters]
    BY <1>2, <2>1, <2>2, <2>4
  <2> QED
    BY <2>2, <2>5, <2>6, <2>7, <1>2, <1>4, <1>6 DEF AddSwap, HistoryType
<1>7. CASE Count(t)
  <2> DEFINE due == counter % AgePeriod = 0
             m == IF due THEN At("halveLoad", 0, 0, 0) ELSE Idle
  <2>1. m \in Local /\ m.at \in {"halveLoad", "idle"}
    BY ConstantFacts, AtLocal DEF Idle, Local, Places
  <2>2. Go(t, m) /\ counter' = (counter + 1) % AgePeriod
    BY <1>7 DEF Count
  <2> HIDE DEF m
  <2>3. Moved
    BY <2>1, <2>2, GoTypes
  <2>4. counter' \in 0 .. AgePeriod - 1
    BY <1>2, <2>2, ConstantFacts
  <2>5. Credited(t) \in [Columns -> Counters]
    BY <1>1, <1>2, BumpedType, IndexInRange, ConstantFacts DEF Credited, Counters
  <2>6. \A v \in Counters : v \div 2 \in Counters
    BY ConstantFacts DEF Counters
  <2>7. owed' \in [Columns -> Counters] /\ clean' \subseteq Threads
    BY <1>2, <1>7, <2>5, <2>6 DEF Count
  <2> QED
    BY <2>3, <2>4, <2>7, <1>2, <1>7 DEF Count, HistoryType
<1>8. CASE HalveLoad(t)
  <2> DEFINE m == [me[t] EXCEPT !.at = "halveSwap", !.val = table[me[t].pos]]
  <2>1. m \in Local /\ m.at = "halveSwap"
    BY <1>1, <1>2 DEF Local, Places
  <2>2. Go(t, m)
    BY <1>8 DEF HalveLoad
  <2> HIDE DEF m
  <2>3. Moved
    BY <2>1, <2>2, GoTypes
  <2> QED
    BY <2>3, <1>2, <1>4, <1>8 DEF HalveLoad, HistoryType
<1>9. CASE HalveSwap(t)
  <2> DEFINE n == me[t].pos
             m == IF table[n] # me[t].val THEN [me[t] EXCEPT !.val = table[n]]
                  ELSE IF n = Depth * Width - 1 THEN Idle
                  ELSE At("halveLoad", 0, n + 1, 0)
  <2>1. n # Depth * Width - 1 => n + 1 \in Cells
    BY <1>1, ConstantFacts DEF Cells
  <2>2. m \in Local /\ m.at \in {"halveSwap", "halveLoad", "idle"}
    BY <1>1, <1>2, <1>9, <2>1, ConstantFacts, AtLocal DEF HalveSwap, Idle, Local, Places
  <2>3. Go(t, m)
    BY <1>9 DEF HalveSwap
  <2> HIDE DEF m
  <2>4. Moved
    BY <2>2, <2>3, GoTypes
  <2>5. table' \in [Cells -> Counters]
    <3>1. \A v \in Counters : v \div 2 \in Counters
      BY ConstantFacts DEF Counters
    <3> QED
      BY <1>1, <1>2, <1>9, <3>1 DEF HalveSwap
  <2> QED
    BY <2>4, <2>5, <1>2, <1>4, <1>9 DEF HalveSwap, HistoryType
<1>10. CASE Read(t)
  <2> DEFINE v == table[CellOf(me[t].hash, me[t].pos)]
             low == IF v < me[t].val THEN v ELSE me[t].val
             m == IF me[t].pos = Depth - 1 THEN At("told", me[t].hash, 0, low)
                  ELSE At("read", me[t].hash, me[t].pos + 1, low)
  <2>1. low \in Counters /\ me[t].pos \in Rows
    BY <1>1, <1>2, <1>10 DEF Read
  <2>2. me[t].pos # Depth - 1 => me[t].pos + 1 \in Rows
    BY <2>1, ConstantFacts DEF Rows
  <2> HIDE DEF low
  <2>3. m \in Local /\ (m.at = "read" => m.pos \in Rows) /\ m.at \in {"told", "read"}
    BY <1>1, <2>1, <2>2, ConstantFacts, AtLocal DEF Places
  <2>4. Go(t, m)
    BY <1>10 DEF Read, low
  <2> HIDE DEF m
  <2>5. Moved
    BY <2>3, <2>4, GoTypes
  <2> QED
    BY <2>5, <1>2, <1>4, <1>10 DEF Read, HistoryType
<1>11. CASE Return(t)
  <2>1. Idle \in Local /\ Idle.at = "idle"
    BY ConstantFacts, AtLocal DEF Idle, Places
  <2>2. Go(t, Idle)
    BY <1>11 DEF Return
  <2>3. Moved
    BY <2>1, <2>2, GoTypes
  <2> QED
    BY <2>3, <1>2, <1>4, <1>11 DEF Return, HistoryType
<1>12. CASE ClearCell(t)
  <2> DEFINE n == me[t].pos
             m == IF n = Depth * Width - 1 THEN At("clearKey", 0, 0, 0)
                  ELSE At("clear", 0, n + 1, 0)
  <2>1. n # Depth * Width - 1 => n + 1 \in Cells
    BY <1>1, ConstantFacts DEF Cells
  <2>2. m \in Local /\ m.at \in {"clearKey", "clear"}
    BY <2>1, ConstantFacts, AtLocal DEF Places
  <2>3. Go(t, m)
    BY <1>12 DEF ClearCell
  <2> HIDE DEF m
  <2>4. Moved
    BY <2>2, <2>3, GoTypes
  <2>5. table' \in [Cells -> Counters]
    BY <1>1, <1>2, <1>12, ConstantFacts DEF ClearCell
  <2> QED
    BY <2>4, <2>5, <1>2, <1>4, <1>12 DEF ClearCell, HistoryType
<1>13. CASE ClearKey(t)
  <2> DEFINE m == At("clearCount", 0, 0, 0)
  <2>1. m \in Local /\ m.at = "clearCount"
    BY ConstantFacts, AtLocal DEF Places
  <2>2. Go(t, m)
    BY <1>13 DEF ClearKey
  <2> HIDE DEF m
  <2>3. Moved
    BY <2>1, <2>2, GoTypes
  <2> QED
    BY <2>3, <1>2, <1>4, <1>13 DEF ClearKey, HistoryType
<1>14. CASE ClearCount(t)
  <2>1. Idle \in Local /\ Idle.at = "idle"
    BY ConstantFacts, AtLocal DEF Idle, Places
  <2>2. Go(t, Idle)
    BY <1>14 DEF ClearCount
  <2>3. Moved
    BY <2>1, <2>2, GoTypes
  <2> QED
    BY <2>3, <1>2, <1>4, <1>14, ConstantFacts DEF ClearCount, HistoryType
<1> QED
  BY <1>5, <1>6, <1>7, <1>8, <1>9, <1>10, <1>11, <1>12, <1>13, <1>14 DEF Step

LEMMA CallTypes ==
    ASSUME Types, NEW t \in Threads,
           \/ \E h \in Inputs : Record(t, h)
           \/ \E from \in Inputs, to \in Inputs : Ask(t, from, to)
           \/ Reset(t)
    PROVE  Types'
<1>2. /\ table \in [Cells -> Counters] /\ counter \in 0 .. AgePeriod - 1
      /\ noted \in [Columns -> 0 .. NotedBound] /\ owed \in [Columns -> Counters]
      /\ clean \subseteq Threads /\ lastKey \in Inputs \cup {0}
  BY TypesAt
<1> DEFINE Moved == me' \in [Threads -> Local] /\ Placed' /\ IsFiniteSet(Busy')
<1>3. SUFFICES /\ Moved /\ HistoryType'
               /\ table' \in [Cells -> Counters] /\ counter' \in 0 .. AgePeriod - 1
               /\ lastKey' \in Inputs \cup {0}
  BY DEF Types, TypeOK, Local
<1>4. HistoryType
  BY DEF Types
<1>5. ASSUME NEW h \in Inputs, Record(t, h)
      PROVE  Moved /\ HistoryType' /\ table' = table /\ counter' = counter /\ lastKey' = h
  <2> DEFINE link == Link(lastKey, h)
             m == At("addLoad", link, 0, 0)
  <2>1. table' = table /\ counter' = counter /\ lastKey' = h /\ owed' = owed
    BY <1>5 DEF Record
  <2>2. CASE lastKey = 0
    <3>1. me' = me /\ noted' = noted /\ clean' = clean
      BY <1>5, <2>2 DEF Record
    <3>2. Moved
      BY <3>1 DEF Types, TypeOK, Local, Placed, Busy
    <3> QED
      BY <1>4, <2>1, <3>1, <3>2 DEF HistoryType
  <2>3. CASE lastKey # 0
    <3>1. link \in Hashes
      BY <1>2, <2>3, LinkIsHash, ConstantFacts
    <3>2. m \in Local /\ m.pos \in Rows
      BY <3>1, ConstantFacts, AtLocal DEF Places
    <3>3. /\ Go(t, m)
          /\ noted' = Bumped(noted, Index(link, 0), NotedBound)
          /\ clean' = clean \cup {t} \/ clean' = clean
      BY <1>5, <2>3 DEF Record
    <3> HIDE DEF m, link
    <3>4. Moved
      BY <3>2, <3>3, GoTypes
    <3>5. noted' \in [Columns -> 0 .. NotedBound]
      BY <1>2, <3>1, <3>3, BumpedType, IndexInRange, ConstantFacts
    <3> QED
      BY <1>2, <2>1, <3>3, <3>4, <3>5 DEF HistoryType
  <2> QED
    BY <2>2, <2>3
<1>6. ASSUME NEW from \in Inputs, NEW to \in Inputs, Ask(t, from, to)
      PROVE  Moved /\ HistoryType' /\ table' = table /\ counter' = counter /\ lastKey' = lastKey
  <2> DEFINE m == At("read", Link(from, to), 0, CounterMax)
  <2>1. Link(from, to) \in Hashes
    BY LinkIsHash, ConstantFacts
  <2>2. m \in Local /\ m.pos \in Rows
    BY <2>1, ConstantFacts, AtLocal DEF Places
  <2>3. Go(t, m)
    BY <1>6 DEF Ask
  <2> HIDE DEF m
  <2>4. Moved
    BY <2>2, <2>3, GoTypes
  <2> QED
    BY <2>4, <1>4, <1>6 DEF Ask, HistoryType
<1>7. CASE Reset(t)
  <2> DEFINE m == At("clear", 0, 0, 0)
  <2>1. m \in Local /\ m.at = "clear"
    BY ConstantFacts, AtLocal DEF Places
  <2>2. Go(t, m)
    BY <1>7 DEF Reset
  <2> HIDE DEF m
  <2>3. Moved
    BY <2>1, <2>2, GoTypes
  <2> QED
    BY <2>3, <1>2, <1>7, ConstantFacts DEF Reset, HistoryType
<1> QED
  BY <1>2, <1>5, <1>6, <1>7

LEMMA TypesNext == Types /\ [Next]_vars => Types'
<1> SUFFICES ASSUME Types, [Next]_vars
             PROVE  Types'
  OBVIOUS
<1>1. CASE UNCHANGED vars
  BY <1>1 DEF Types, TypeOK, HistoryType, Placed, Busy, vars
<1>2. CASE Next
  BY <1>2, StepTypes, CallTypes DEF Next
<1> QED
  BY <1>1, <1>2

-----------------------------------------------------------------------------
(* What the steps do, thread by thread and cell by cell.                   *)

\* No thread but t moves.
Others(t) == \A u \in Threads \ {t} : me'[u] = me[u]

\* Where a thread is once it is through with a row.
PastRow(t) ==
    /\ me'[t].hash = me[t].hash
    /\ IF me[t].pos = Depth - 1 THEN me'[t].at = "count"
       ELSE me'[t].at = "addLoad" /\ me'[t].pos = me[t].pos + 1

LEMMA RowDoneEffect ==
    ASSUME Types, NEW t \in Threads, RowDone(t)
    PROVE  Others(t) /\ PastRow(t)
<1>1. me \in [Threads -> Local]
  BY TypesAt
<1> QED
  BY <1>1 DEF RowDone, Go, Others, PastRow, At

LEMMA AddSwapEffect ==
    ASSUME Types, NEW t \in Threads, AddSwap(t)
    PROVE  LET n == CellOf(me[t].hash, me[t].pos)
           IN  /\ me[t].at = "addSwap" /\ me[t].pos \in Rows /\ me[t].hash \in Hashes
               /\ n \in Cells /\ Others(t)
               /\ UNCHANGED <<lastKey, counter, noted, owed, clean>>
               /\ \/ me[t].val = CounterMax /\ table' = table /\ PastRow(t)
                  \/ /\ table[n] = me[t].val /\ table[n] # CounterMax /\ PastRow(t)
                     /\ table'[n] = table[n] + 1
                     /\ \A k \in Cells \ {n} : table'[k] = table[k]
                  \/ /\ table' = table
                     /\ me'[t].at = "addSwap" /\ me'[t].pos = me[t].pos
                     /\ me'[t].hash = me[t].hash /\ me'[t].val = table[n]
<1> DEFINE n == CellOf(me[t].hash, me[t].pos)
<1>1. /\ me \in [Threads -> Local] /\ me[t] \in Local /\ me[t].at = "addSwap"
      /\ table \in [Cells -> Counters] /\ me[t].pos \in Rows /\ n \in Cells
      /\ me[t].hash \in Hashes
  BY TypesAt DEF AddSwap, Local
<1>2. UNCHANGED <<lastKey, counter, noted, owed, clean>>
  BY DEF AddSwap
<1>3. CASE me[t].val = CounterMax
  <2>1. RowDone(t) /\ table' = table
    BY <1>3 DEF AddSwap, RowDone, Go
  <2> QED
    BY <1>1, <1>2, <1>3, <2>1, RowDoneEffect
<1>4. CASE me[t].val # CounterMax /\ table[n] = me[t].val
  <2>1. RowDone(t) /\ table' = [table EXCEPT ![n] = @ + 1]
    BY <1>4 DEF AddSwap, RowDone, Go
  <2>2. table'[n] = table[n] + 1 /\ \A k \in Cells \ {n} : table'[k] = table[k]
    BY <1>1, <2>1
  <2> QED
    BY <1>1, <1>2, <1>4, <2>1, <2>2, RowDoneEffect
<1>5. CASE me[t].val # CounterMax /\ table[n] # me[t].val
  <2>1. Go(t, [me[t] EXCEPT !.val = table[n]]) /\ table' = table
    BY <1>5 DEF AddSwap
  <2>2. /\ Others(t) /\ me'[t].at = "addSwap" /\ me'[t].pos = me[t].pos
        /\ me'[t].hash = me[t].hash /\ me'[t].val = table[n]
    BY <1>1, <2>1 DEF Go, Others, Local
  <2> QED
    BY <1>1, <1>2, <2>1, <2>2
<1> QED
  BY <1>3, <1>4, <1>5

LEMMA AddLoadEffect ==
    ASSUME Types, NEW t \in Threads, AddLoad(t)
    PROVE  /\ me[t].at = "addLoad" /\ me[t].pos \in Rows /\ Others(t)
           /\ me'[t].at = "addSwap" /\ me'[t].pos = me[t].pos /\ me'[t].hash = me[t].hash
           /\ me'[t].val = table[CellOf(me[t].hash, me[t].pos)]
           /\ UNCHANGED <<table, lastKey, counter, noted, owed, clean>>
  BY TypesAt DEF AddLoad, Go, Others, Local

LEMMA HalveSwapEffect ==
    ASSUME Types, NEW t \in Threads, HalveSwap(t)
    PROVE  LET n == me[t].pos
           IN  /\ me[t].at = "halveSwap" /\ n \in Cells /\ Others(t)
               /\ UNCHANGED <<lastKey, counter, noted, owed, clean>>
               /\ \/ /\ table'[n] = table[n] \div 2
                     /\ \A k \in Cells \ {n} : table'[k] = table[k]
                     /\ IF n = Depth * Width - 1 THEN me'[t].at = "idle"
                        ELSE me'[t].at = "halveLoad" /\ me'[t].pos = n + 1
                  \/ table' = table /\ me'[t].at = "halveSwap" /\ me'[t].pos = n
<1>1. /\ me \in [Threads -> Local] /\ me[t] \in Local /\ table \in [Cells -> Counters]
      /\ me[t].pos \in Cells
  BY TypesAt DEF Local
<1>2. CASE table[me[t].pos] = me[t].val
  BY <1>1, <1>2 DEF HalveSwap, Go, Others, At, Idle
<1>3. CASE table[me[t].pos] # me[t].val
  BY <1>1, <1>3 DEF HalveSwap, Go, Others, Local
<1> QED
  BY <1>2, <1>3

LEMMA CountEffect ==
    ASSUME Types, NEW t \in Threads, Count(t)
    PROVE  /\ me[t].at = "count" /\ me[t].hash \in Hashes /\ Others(t)
           /\ counter' = (counter + 1) % AgePeriod
           /\ UNCHANGED <<table, lastKey, noted>>
           /\ \/ /\ counter % AgePeriod = 0
                 /\ me'[t].at = "halveLoad" /\ me'[t].pos = 0
                 /\ owed' = [c \in Columns |-> Credited(t)[c] \div 2] /\ clean' = {}
              \/ /\ counter % AgePeriod # 0
                 /\ me'[t].at = "idle"
                 /\ \A c \in Columns : owed'[c] = Credited(t)[c]
                 /\ clean' = clean \ {t}
<1>1. me \in [Threads -> Local] /\ me[t] \in Local /\ me[t].hash \in Hashes
  BY TypesAt DEF Local
<1>2. CASE counter % AgePeriod = 0
  BY <1>1, <1>2 DEF Count, Go, Others, At, Idle
<1>3. CASE counter % AgePeriod # 0
  BY <1>1, <1>3 DEF Count, Go, Others, At, Idle
<1> QED
  BY <1>2, <1>3

LEMMA ClearCellEffect ==
    ASSUME Types, NEW t \in Threads, ClearCell(t)
    PROVE  /\ me[t].at = "clear" /\ me[t].pos \in Cells /\ Others(t)
           /\ me'[t].at \in {"clear", "clearKey"}
           /\ table'[me[t].pos] = 0 /\ \A k \in Cells \ {me[t].pos} : table'[k] = table[k]
           /\ UNCHANGED <<lastKey, counter, noted, owed, clean>>
<1>1. /\ me \in [Threads -> Local] /\ me[t] \in Local /\ table \in [Cells -> Counters]
      /\ me[t].pos \in Cells
  BY TypesAt DEF Local
<1> QED
  BY <1>1 DEF ClearCell, Go, Others, At

\* The steps that leave the table, the counter and the histories alone, and are
\* taken neither from nor to an add.
Aside(t) ==
    /\ Others(t)
    /\ UNCHANGED <<table, noted, owed, clean>>
    /\ me[t].at \notin {"addLoad", "addSwap", "count"}
    /\ me'[t].at \notin {"addLoad", "addSwap", "count"}

LEMMA AsideEffect ==
    ASSUME Types, NEW t \in Threads
    PROVE  /\ HalveLoad(t) => /\ Aside(t) /\ counter' = counter
                              /\ me[t].at = "halveLoad" /\ me'[t].at = "halveSwap"
                              /\ me'[t].pos = me[t].pos
           /\ Read(t) => /\ Aside(t) /\ counter' = counter
                         /\ me[t].at = "read" /\ me'[t].at \in {"read", "told"}
           /\ Return(t) => /\ Aside(t) /\ counter' = counter
                           /\ me[t].at = "told" /\ me'[t].at = "idle"
           /\ ClearKey(t) => /\ Aside(t) /\ counter' = counter
                             /\ me[t].at = "clearKey" /\ me'[t].at = "clearCount"
           /\ ClearCount(t) => /\ Aside(t) /\ counter' = 0
                               /\ me[t].at = "clearCount" /\ me'[t].at = "idle"
           /\ \A from, to \in Inputs : Ask(t, from, to) =>
                /\ Aside(t) /\ counter' = counter
                /\ me[t].at = "idle" /\ me'[t].at = "read"
<1>1. me \in [Threads -> Local] /\ me[t] \in Local
  BY TypesAt
<1>2. HalveLoad(t) => /\ Aside(t) /\ counter' = counter
                      /\ me[t].at = "halveLoad" /\ me'[t].at = "halveSwap"
                      /\ me'[t].pos = me[t].pos
  BY <1>1 DEF HalveLoad, Go, Others, Aside, Local
<1>3. Read(t) => /\ Aside(t) /\ counter' = counter
                 /\ me[t].at = "read" /\ me'[t].at \in {"read", "told"}
  BY <1>1 DEF Read, Go, Others, Aside, At
<1>4. Return(t) => /\ Aside(t) /\ counter' = counter
                   /\ me[t].at = "told" /\ me'[t].at = "idle"
  BY <1>1 DEF Return, Go, Others, Aside, At, Idle
<1>5. ClearKey(t) => /\ Aside(t) /\ counter' = counter
                     /\ me[t].at = "clearKey" /\ me'[t].at = "clearCount"
  BY <1>1 DEF ClearKey, Go, Others, Aside, At
<1>6. ClearCount(t) => /\ Aside(t) /\ counter' = 0
                       /\ me[t].at = "clearCount" /\ me'[t].at = "idle"
  BY <1>1 DEF ClearCount, Go, Others, Aside, At, Idle
<1>7. ASSUME NEW from \in Inputs, NEW to \in Inputs, Ask(t, from, to)
      PROVE  /\ Aside(t) /\ counter' = counter
             /\ me[t].at = "idle" /\ me'[t].at = "read"
  BY <1>1, <1>7 DEF Ask, Go, Others, Aside, At
<1> QED
  BY <1>2, <1>3, <1>4, <1>5, <1>6, <1>7

LEMMA ResetEffect ==
    ASSUME Types, NEW t \in Threads, Reset(t)
    PROVE  /\ me[t].at = "idle" /\ me'[t].at = "clear" /\ Others(t)
           /\ owed' = [c \in Columns |-> 0] /\ clean' = {}
           /\ UNCHANGED <<table, lastKey, counter, noted>>
  BY TypesAt DEF Reset, Go, Others, At

LEMMA RecordEffect ==
    ASSUME Types, NEW t \in Threads, NEW h \in Inputs, Record(t, h)
    PROVE  LET link == Link(lastKey, h)
           IN  /\ me[t].at = "idle"
               /\ UNCHANGED <<table, counter, owed>>
               /\ \/ lastKey = 0 /\ UNCHANGED <<me, noted, clean>>
                  \/ /\ link \in Hashes /\ Others(t)
                     /\ me'[t].at = "addLoad" /\ me'[t].hash = link /\ me'[t].pos = 0
                     /\ noted' = Bumped(noted, Index(link, 0), NotedBound)
                     /\ clean' = IF Undisturbed THEN clean \cup {t} ELSE clean
<1>1. me \in [Threads -> Local] /\ me[t] \in Local /\ lastKey \in Inputs \cup {0}
  BY TypesAt
<1>2. CASE lastKey = 0
  BY <1>2 DEF Record
<1>3. CASE lastKey # 0
  <2>1. Link(lastKey, h) \in Hashes
    BY <1>1, <1>3, LinkIsHash, ConstantFacts
  <2> QED
    BY <1>1, <1>3, <2>1 DEF Record, Go, Others, At
<1> QED
  BY <1>2, <1>3

-----------------------------------------------------------------------------
(* No advice without reason.                                               *)

\* The threads whose add has still to reach row i, in column c of row 0.
Awaiting(c, i) ==
    {t \in Threads : /\ me[t].at \in {"addLoad", "addSwap"}
                     /\ me[t].pos <= i /\ Index(me[t].hash, 0) = c}

\* A counter is no greater than what was noted of its column, and is not made so
\* by the adds under way.
AllNoted ==
    \A h \in Hashes, i \in Rows :
        \/ noted[Index(h, 0)] = NotedBound
        \/ table[CellOf(h, i)] + Cardinality(Awaiting(Index(h, 0), i))
             <= noted[Index(h, 0)]

LEMMA AwaitingFinite ==
    ASSUME Types
    PROVE  \A c, i : /\ IsFiniteSet(Awaiting(c, i))
                     /\ Cardinality(Awaiting(c, i)) \in Nat
<1>1. \A c, i : Awaiting(c, i) \subseteq Busy
  BY DEF Awaiting, Busy
<1> QED
  BY <1>1, FS_Subset, FS_CardinalityType DEF Types

LEMMA NotedStep ==
    ASSUME Types, Types', AllNoted, [Next]_vars
    PROVE  AllNoted'
<1> SUFFICES ASSUME NEW h \in Hashes, NEW i \in Rows
             PROVE  \/ noted'[Index(h, 0)] = NotedBound
                    \/ table'[CellOf(h, i)] + Cardinality(Awaiting(Index(h, 0), i)')
                         <= noted'[Index(h, 0)]
  BY DEF AllNoted, CellOf
<1> DEFINE c == Index(h, 0)
           n == CellOf(h, i)
           A == Awaiting(c, i)
           Goal == noted'[c] = NotedBound \/ table'[n] + Cardinality(A') <= noted'[c]
<1>1. /\ c \in Columns /\ n \in Cells
      /\ \A g \in Hashes, j \in Rows : n = CellOf(g, j) <=> i = j /\ c = Index(g, 0)
  BY CellOfFacts
<1>2. /\ noted \in [Columns -> 0 .. NotedBound] /\ noted' \in [Columns -> 0 .. NotedBound]
      /\ table \in [Cells -> Counters] /\ table' \in [Cells -> Counters]
  BY DEF Types, TypeOK, HistoryType
<1>3. /\ noted[c] \in Nat /\ noted'[c] \in Nat /\ noted'[c] <= NotedBound
      /\ table[n] \in Nat /\ table'[n] \in Nat
  BY <1>1, <1>2, ConstantFacts DEF Counters
<1>4. /\ IsFiniteSet(A) /\ Cardinality(A) \in Nat
      /\ IsFiniteSet(A') /\ Cardinality(A') \in Nat
  <2>1. IsFiniteSet(A) /\ Cardinality(A) \in Nat
    BY AwaitingFinite
  <2>2. A' \subseteq Busy'
    BY DEF Awaiting, Busy
  <2>3. IsFiniteSet(A') /\ Cardinality(A') \in Nat
    BY <2>2, FS_Subset, FS_CardinalityType DEF Types
  <2> QED
    BY <2>1, <2>3
<1>5. noted[c] = NotedBound \/ table[n] + Cardinality(A) <= noted[c]
  BY DEF AllNoted
<1>6. \A t \in Threads :
        /\ t \in A <=> /\ me[t].at \in {"addLoad", "addSwap"}
                       /\ me[t].pos <= i /\ Index(me[t].hash, 0) = c
        /\ t \in A' <=> /\ me'[t].at \in {"addLoad", "addSwap"}
                        /\ me'[t].pos <= i /\ Index(me'[t].hash, 0) = c
  BY DEF Awaiting, Index
<1>7. A \subseteq Threads /\ A' \subseteq Threads
  BY DEF Awaiting
<1> HIDE DEF A, n, c
\* Where the table grows nowhere and nobody new awaits, nothing is to be shown.
<1>8. ASSUME noted' = noted, table'[n] <= table[n], A' \subseteq A
      PROVE  Goal
  <2>1. Cardinality(A') <= Cardinality(A)
    BY <1>4, <1>8, FS_Subset
  <2> QED
    BY <1>3, <1>4, <1>5, <1>8, <2>1
<1>9. ASSUME NEW t \in Threads, Others(t), UNCHANGED <<noted, table>>,
             me'[t].at \notin {"addLoad", "addSwap"}
      PROVE  Goal
  <2>1. A' \subseteq A
    BY <1>6, <1>7, <1>9 DEF Others
  <2> QED
    BY <1>3, <1>8, <1>9, <2>1
<1>10. ASSUME NEW t \in Threads, Step(t)
       PROVE  Goal
  <2>1. CASE AddLoad(t)
    <3>1. A' \subseteq A /\ noted' = noted /\ table'[n] = table[n]
      BY <1>6, <1>7, <2>1, AddLoadEffect DEF Others
    <3> QED
      BY <1>3, <1>8, <3>1
  <2>2. CASE AddSwap(t)
    <3> DEFINE k == CellOf(me[t].hash, me[t].pos)
    <3>1. /\ me[t].at = "addSwap" /\ me[t].pos \in Rows /\ me[t].hash \in Hashes
          /\ k \in Cells /\ Others(t) /\ noted' = noted
          /\ \/ table' = table /\ PastRow(t)
             \/ /\ PastRow(t) /\ table'[k] = table[k] + 1
                /\ \A l \in Cells \ {k} : table'[l] = table[l]
             \/ /\ table' = table /\ me'[t].at = "addSwap"
                /\ me'[t].pos = me[t].pos /\ me'[t].hash = me[t].hash
      BY <2>2, AddSwapEffect
    <3>2. i \in Nat /\ me[t].pos \in Nat /\ (n = k <=> i = me[t].pos /\ c = Index(me[t].hash, 0))
      BY <1>1, <3>1, SketchAssumption DEF Rows
    <3> HIDE DEF k
    <3>3. A' \subseteq A
      BY <1>6, <1>7, <3>1, <3>2 DEF Others, PastRow
    <3>4. CASE table'[n] <= table[n]
      BY <1>8, <3>1, <3>3, <3>4
    <3>5. CASE ~(table'[n] <= table[n])
      <4>1. n = k /\ PastRow(t) /\ table'[n] = table[n] + 1
        BY <1>1, <1>3, <3>1, <3>5
      <4>2. t \in A /\ t \notin A'
        BY <1>6, <3>1, <3>2, <4>1 DEF PastRow
      <4>3. A \ {t} = (A') \ {t}
        BY <1>6, <1>7, <3>1 DEF Others
      <4>4. Cardinality(A') = Cardinality(A) - 1
        BY <1>4, <4>2, <4>3, OneMoreOrLess
      <4> QED
        BY <1>3, <1>4, <1>5, <3>1, <4>1, <4>4
    <3> QED
      BY <3>4, <3>5
  <2>3. CASE Count(t)
    BY <1>9, <2>3, CountEffect
  <2>4. CASE HalveSwap(t)
    <3>1. /\ Others(t) /\ noted' = noted /\ me'[t].at \notin {"addLoad", "addSwap"}
          /\ table'[n] <= table[n]
      <4>1. \A v \in Nat : v \div 2 <= v
        OBVIOUS
      <4> QED
        BY <1>1, <1>3, <2>4, <4>1, HalveSwapEffect
    <3>2. A' \subseteq A
      BY <1>6, <1>7, <3>1 DEF Others
    <3> QED
      BY <1>8, <3>1, <3>2
  <2>5. CASE ClearCell(t)
    <3>1. /\ Others(t) /\ noted' = noted /\ me'[t].at \notin {"addLoad", "addSwap"}
          /\ table'[n] <= table[n]
      BY <1>1, <1>3, <2>5, ClearCellEffect
    <3>2. A' \subseteq A
      BY <1>6, <1>7, <3>1 DEF Others
    <3> QED
      BY <1>8, <3>1, <3>2
  <2>6. CASE HalveLoad(t) \/ Read(t) \/ Return(t) \/ ClearKey(t) \/ ClearCount(t)
    <3>1. Aside(t)
      BY <2>6, AsideEffect
    <3> QED
      BY <1>9, <3>1 DEF Aside
  <2> QED
    BY <1>10, <2>1, <2>2, <2>3, <2>4, <2>5, <2>6 DEF Step
<1>11. ASSUME NEW t \in Threads, NEW g \in Inputs, Record(t, g)
       PROVE  Goal
  <2> DEFINE link == Link(lastKey, g)
  <2>1. /\ me[t].at = "idle" /\ table' = table
        /\ \/ UNCHANGED <<me, noted>>
           \/ /\ link \in Hashes /\ Others(t)
              /\ me'[t].at = "addLoad" /\ me'[t].hash = link
              /\ noted' = Bumped(noted, Index(link, 0), NotedBound)
    BY <1>11, RecordEffect
  <2> HIDE DEF link
  <2>2. CASE UNCHANGED <<me, noted>>
    <3>1. A' \subseteq A
      BY <1>6, <1>7, <2>2
    <3> QED
      BY <1>3, <1>8, <2>1, <2>2, <3>1
  <2>3. CASE /\ link \in Hashes /\ Others(t)
             /\ me'[t].at = "addLoad" /\ me'[t].hash = link
             /\ noted' = Bumped(noted, Index(link, 0), NotedBound)
    <3>1. Index(link, 0) \in Columns
      BY <2>3, IndexInRange, ConstantFacts
    <3> DEFINE f == Bumped(noted, Index(link, 0), NotedBound)
               d == Index(link, 0)
    <3>0. /\ \A e \in Columns \ {d} : f[e] = noted[e]
          /\ f[d] = IF noted[d] + 1 > NotedBound THEN NotedBound ELSE noted[d] + 1
      BY <1>2, <3>1, BumpedType, OracleAssumption
    <3>2. CASE c = Index(link, 0)
      <4>1. noted'[c] = IF noted[c] + 1 > NotedBound THEN NotedBound ELSE noted[c] + 1
        BY <2>3, <3>0, <3>2
      <4>2. t \notin A /\ A \ {t} = (A') \ {t}
        BY <1>6, <1>7, <2>1, <2>3 DEF Others
      <4>3. Cardinality(A') <= Cardinality(A) + 1
        BY <1>4, <4>2, OneMoreOrLess
      <4> QED
        BY <1>3, <1>4, <1>5, <2>1, <4>1, <4>3, ConstantFacts
    <3>3. CASE c # Index(link, 0)
      <4>1. noted'[c] = noted[c]
        BY <1>1, <2>3, <3>0, <3>3
      <4>2. A' \subseteq A
        BY <1>6, <1>7, <2>3, <3>3 DEF Others
      <4>3. Cardinality(A') <= Cardinality(A)
        BY <1>4, <4>2, FS_Subset
      <4> QED
        BY <1>3, <1>4, <1>5, <2>1, <4>1, <4>3
    <3> QED
      BY <3>2, <3>3
  <2> QED
    BY <2>1, <2>2, <2>3
<1>12. ASSUME NEW t \in Threads, NEW from \in Inputs, NEW to \in Inputs, Ask(t, from, to)
       PROVE  Goal
  <2>1. Aside(t)
    BY <1>12, AsideEffect
  <2> QED
    BY <1>9, <2>1 DEF Aside
<1>13. ASSUME NEW t \in Threads, Reset(t)
       PROVE  Goal
  BY <1>9, <1>13, ResetEffect
<1>14. ASSUME UNCHANGED vars
       PROVE  Goal
  <2>1. A' \subseteq A /\ noted' = noted /\ table'[n] = table[n]
    BY <1>6, <1>7, <1>14 DEF vars
  <2> QED
    BY <1>3, <1>8, <2>1
<1>15. ASSUME Next
       PROVE  Goal
  <2> HIDE DEF Goal
  <2> QED
    BY <1>10, <1>11, <1>12, <1>13, <1>15 DEF Next
<1>16. Goal
  BY <1>14, <1>15
<1> QED
  BY <1>16 DEF A, n, c

\* What a read leaves behind is no more than the counter it has seen.
LEMMA ReadEffect ==
    ASSUME Types, NEW t \in Threads, Read(t)
    PROVE  /\ me[t].at = "read" /\ me[t].pos \in Rows /\ me[t].hash \in Hashes /\ Others(t)
           /\ me'[t].hash = me[t].hash
           /\ me'[t].val <= table[CellOf(me[t].hash, me[t].pos)]
           /\ UNCHANGED <<table, noted>>
<1>1. /\ me \in [Threads -> Local] /\ me[t] \in Local /\ table \in [Cells -> Counters]
      /\ me[t].at = "read" /\ me[t].pos \in Rows
      /\ CellOf(me[t].hash, me[t].pos) \in Cells /\ me[t].hash \in Hashes
  BY TypesAt DEF Read, Local
<1> DEFINE v == table[CellOf(me[t].hash, me[t].pos)]
           low == IF v < me[t].val THEN v ELSE me[t].val
<1>2. v \in Nat /\ me[t].val \in Nat
  BY <1>1, ConstantFacts DEF Local
<1>3. low <= v
  BY <1>2
<1>4. me'[t].hash = me[t].hash /\ me'[t].val = low /\ Others(t)
  <2> HIDE DEF low
  <2> QED
    BY <1>1 DEF Read, Go, Others, At, low
<1> QED
  BY <1>1, <1>3, <1>4 DEF Read

\* Nothing that was noted is forgotten, and only a read ends in an answer.
LEMMA NotedGrows ==
    ASSUME Types, Types', NEW t \in Threads,
           \/ Step(t)
           \/ \E h \in Inputs : Record(t, h)
           \/ \E from, to \in Inputs : Ask(t, from, to)
           \/ Reset(t)
    PROVE  /\ \A c \in Columns : noted[c] <= noted'[c]
           /\ UNCHANGED me \/ Others(t)
           /\ UNCHANGED me \/ me'[t].at # "told" \/ Read(t)
<1>1. /\ \A c \in Columns : noted[c] \in Nat /\ noted'[c] \in Nat /\ noted[c] <= NotedBound
      /\ noted \in [Columns -> 0 .. NotedBound]
  BY ConstantFacts DEF Types, HistoryType
<1>2. CASE noted' = noted
  <2>1. \A c \in Columns : noted[c] <= noted'[c]
    BY <1>1, <1>2
  <2>2. CASE Step(t)
    BY <2>1, <2>2, AddLoadEffect, AddSwapEffect, CountEffect, HalveSwapEffect,
       ClearCellEffect, AsideEffect DEF Step, PastRow, Aside
  <2>3. CASE \E h \in Inputs : Record(t, h)
    BY <2>1, <2>3, RecordEffect
  <2>4. CASE \E from, to \in Inputs : Ask(t, from, to)
    BY <2>1, <2>4, AsideEffect DEF Aside
  <2>5. CASE Reset(t)
    BY <2>1, <2>5, ResetEffect
  <2> QED
    BY <2>2, <2>3, <2>4, <2>5
<1>3. CASE noted' # noted
  <2>1. PICK h \in Inputs : Record(t, h)
    BY <1>3, AddLoadEffect, AddSwapEffect, CountEffect, HalveSwapEffect,
       ClearCellEffect, AsideEffect, ResetEffect DEF Step, Aside
  <2> DEFINE d == Index(Link(lastKey, h), 0)
  <2>2. /\ Others(t) /\ me'[t].at = "addLoad" /\ Link(lastKey, h) \in Hashes
        /\ noted' = Bumped(noted, d, NotedBound)
    BY <1>3, <2>1, RecordEffect
  <2>3. d \in Columns
    BY <2>2, IndexInRange, ConstantFacts
  <2> HIDE DEF d
  <2>4. \A c \in Columns : noted[c] <= noted'[c]
    <3>1. /\ \A e \in Columns \ {d} : noted'[e] = noted[e]
          /\ noted'[d] = IF noted[d] + 1 > NotedBound THEN NotedBound ELSE noted[d] + 1
      BY <1>1, <2>2, <2>3, BumpedType, OracleAssumption
    <3>2. noted[d] <= noted'[d]
      BY <1>1, <2>3, <3>1
    <3> QED
      BY <1>1, <3>1, <3>2
  <2> QED
    BY <2>2, <2>4
<1> QED
  BY <1>2, <1>3

LEMMA PrefetchStep ==
    ASSUME Types, Types', AllNoted, PrefetchIsJustified, [Next]_vars
    PROVE  PrefetchIsJustified'
<1> SUFFICES ASSUME NEW u \in Threads, me'[u].at = "told", me'[u].val >= Threshold
             PROVE  noted'[Index(me'[u].hash, 0)] >= Threshold
  BY DEF PrefetchIsJustified, Recommended, Index
<1>1. /\ \A c \in Columns : noted[c] \in Nat /\ noted'[c] \in Nat
      /\ Threshold \in Nat /\ NotedBound \in Nat /\ NotedBound >= Threshold
  BY ConstantFacts, OracleAssumption, TransitionAssumption DEF Types, HistoryType
<1>2. CASE UNCHANGED vars
  BY <1>2 DEF vars, PrefetchIsJustified, Recommended
<1>3. ASSUME NEW t \in Threads,
             \/ Step(t)
             \/ \E h \in Inputs : Record(t, h)
             \/ \E from, to \in Inputs : Ask(t, from, to)
             \/ Reset(t)
      PROVE  noted'[Index(me'[u].hash, 0)] >= Threshold
  <2>1. \A c \in Columns : noted[c] <= noted'[c]
    BY <1>3, NotedGrows
  <2>2. CASE me'[u] = me[u]
    <3> DEFINE c == Index(me[u].hash, 0)
    <3>1. c \in Columns
      BY TypesAt, IndexInRange, ConstantFacts DEF Local
    <3>2. noted[c] >= Threshold
      BY <2>2 DEF PrefetchIsJustified, Recommended
    <3>3. noted'[c] >= Threshold
      <4> HIDE DEF c
      <4> QED
        BY <1>1, <2>1, <3>1, <3>2
    <3> QED
      BY <2>2, <3>3
  <2>3. CASE me'[u] # me[u]
    <3>1. u = t /\ Read(t)
      BY <1>3, <2>3, NotedGrows DEF Others
    <3> DEFINE c == Index(me[t].hash, 0)
               v == table[CellOf(me[t].hash, me[t].pos)]
    <3>2. /\ me[t].pos \in Rows /\ me[t].hash \in Hashes /\ me'[t].hash = me[t].hash
          /\ me'[t].val <= v /\ noted' = noted
      BY <3>1, ReadEffect
    <3>3. c \in Columns /\ v \in Nat /\ me'[t].val \in Nat
      <4>1. CellOf(me[t].hash, me[t].pos) \in Cells /\ c \in Columns
        BY <3>2, CellOfFacts
      <4>2. me' \in [Threads -> Local] /\ table \in [Cells -> Counters]
        BY DEF Types, TypeOK, Local
      <4> QED
        BY <4>1, <4>2, ConstantFacts DEF Local
    <3>4. \/ noted[c] = NotedBound
          \/ v + Cardinality(Awaiting(c, me[t].pos)) <= noted[c]
      BY <3>2 DEF AllNoted
    <3>5. Cardinality(Awaiting(c, me[t].pos)) \in Nat
      BY AwaitingFinite
    <3>6. noted[c] >= Threshold
      <4> HIDE DEF c, v
      <4> QED
        BY <1>1, <3>1, <3>2, <3>3, <3>4, <3>5
    <3> QED
      BY <3>1, <3>2, <3>6
  <2> QED
    BY <2>2, <2>3
<1> QED
  BY <1>2, <1>3 DEF Next

-----------------------------------------------------------------------------
(* No increment is lost to another.                                        *)

\* The threads in `clean' are adding, beside no halving and no reset, and have
\* seen no more in a cell than it holds; a reset takes the credit of all.
CleanAdds ==
    /\ \A t \in clean : me[t].at \in {"addLoad", "addSwap", "count"}
    /\ clean # {} => Undisturbed
CleanLoads ==
    \A t \in clean :
        me[t].at = "addSwap" => me[t].val <= table[CellOf(me[t].hash, me[t].pos)]
ResetOwes ==
    (\E t \in Threads : me[t].at = "clear") => \A c \in Columns : owed[c] = 0

Clean == CleanAdds /\ CleanLoads /\ ResetOwes

\* A step of a thread that is neither clean nor sweeping.
LEMMA NobodyElse ==
    ASSUME NEW t \in Threads, Others(t), CleanAdds,
           me[t].at \in Sweeping
    PROVE  clean = {}
  BY DEF CleanAdds, Undisturbed

LEMMA StillClean ==
    ASSUME Types, Clean, NEW t \in Threads, Others(t), clean' \subseteq clean \cup {t},
           UNCHANGED table,
           clean' # {} => Undisturbed,
           t \in clean' => me'[t].at \in {"addLoad", "addSwap", "count"},
           t \in clean' /\ me'[t].at = "addSwap" =>
             me'[t].val <= table[CellOf(me'[t].hash, me'[t].pos)],
           me'[t].at \in Sweeping => clean' = {}
    PROVE  (CleanAdds /\ CleanLoads)'
<1>1. (\A u \in clean : me[u].at \in {"addLoad", "addSwap", "count"})'
  <2> SUFFICES ASSUME NEW u \in clean'
               PROVE  me'[u].at \in {"addLoad", "addSwap", "count"}
    OBVIOUS
  <2>1. CASE u # t
    <3>1. u \in clean /\ u \in Threads /\ me'[u] = me[u]
      BY <2>1 DEF Others, Types, HistoryType
    <3> QED
      BY <3>1 DEF Clean, CleanAdds
  <2>2. CASE u = t
    <3>1. t \in clean'
      BY <2>2
    <3>2. me'[t].at \in {"addLoad", "addSwap", "count"}
      BY <3>1
    <3> QED
      BY <2>2, <3>2
  <2> QED
    BY <2>1, <2>2
<1>2. (clean # {} => Undisturbed)'
  BY DEF Undisturbed, Others
<1>3. ASSUME NEW u \in clean', me'[u].at = "addSwap"
      PROVE  me'[u].val <= table'[CellOf(me'[u].hash, me'[u].pos)]
  <2>1. CASE u = t
    BY <1>3, <2>1
  <2>2. CASE u # t
    <3>1. u \in clean /\ u \in Threads /\ me'[u] = me[u]
      BY <2>2 DEF Others, Types, HistoryType
    <3> QED
      BY <1>3, <3>1 DEF Clean, CleanLoads
  <2> QED
    BY <2>1, <2>2
<1>4. CleanLoads'
  BY <1>3 DEF CleanLoads, CellOf, Index
<1> QED
  BY <1>1, <1>2, <1>4 DEF CleanAdds

LEMMA CleanStep ==
    ASSUME Types, Types', Clean, [Next]_vars
    PROVE  Clean'
<1>0. clean \subseteq Threads /\ owed \in [Columns -> Counters] /\ Counters \subseteq Nat
  BY ConstantFacts DEF Types, HistoryType
<1>1. CASE UNCHANGED vars
  BY <1>1 DEF Clean, CleanAdds, CleanLoads, ResetOwes, Undisturbed, vars
<1>2. ASSUME NEW t \in Threads, Aside(t),
             me'[t].at \in Sweeping => me[t].at \in Sweeping,
             me'[t].at # "clear"
      PROVE  Clean'
  <2>1. t \notin clean
    BY <1>2 DEF Aside, Clean, CleanAdds
  <2>2. clean # {} => Undisturbed /\ me[t].at \notin Sweeping
    BY DEF Clean, CleanAdds, Undisturbed
  <2>3. (CleanAdds /\ CleanLoads)'
    BY <1>2, <2>1, <2>2, StillClean DEF Aside
  <2>4. ResetOwes'
    BY <1>2 DEF Aside, Others, Clean, ResetOwes
  <2> QED
    BY <2>3, <2>4 DEF Clean
<1>3. ASSUME NEW t \in Threads, Step(t)
      PROVE  Clean'
  <2>1. CASE AddLoad(t)
    <3>1. /\ me[t].at = "addLoad" /\ me[t].pos \in Rows /\ Others(t)
          /\ me'[t].at = "addSwap" /\ me'[t].pos = me[t].pos /\ me'[t].hash = me[t].hash
          /\ me'[t].val = table[CellOf(me[t].hash, me[t].pos)]
          /\ UNCHANGED <<table, owed, clean>>
      BY <2>1, AddLoadEffect
    <3>2. me'[t].val \in Nat
      BY <1>0 DEF Types, TypeOK
    <3>3. (CleanAdds /\ CleanLoads)'
      BY <3>1, <3>2, StillClean DEF Clean, CleanAdds, Sweeping
    <3>4. ResetOwes'
      BY <3>1 DEF Others, Clean, ResetOwes
    <3> QED
      BY <3>3, <3>4 DEF Clean
  <2>2. CASE AddSwap(t)
    <3> DEFINE n == CellOf(me[t].hash, me[t].pos)
    <3>1. /\ me[t].at = "addSwap" /\ n \in Cells /\ Others(t)
          /\ UNCHANGED <<owed, clean>>
          /\ \/ table' = table
             \/ /\ table'[n] = table[n] + 1
                /\ \A k \in Cells \ {n} : table'[k] = table[k]
          /\ \/ me'[t].at \in {"count", "addLoad"}
             \/ /\ table' = table
                /\ me'[t].at = "addSwap" /\ me'[t].pos = me[t].pos
                /\ me'[t].hash = me[t].hash /\ me'[t].val = table[n]
      BY <2>2, AddSwapEffect DEF PastRow
    <3> HIDE DEF n
    <3>2. /\ \A k \in Cells : table[k] \in Nat /\ table'[k] \in Nat /\ table[k] <= table'[k]
      <4>1. \A k \in Cells : table[k] \in Nat /\ table'[k] \in Nat
        BY <1>0 DEF Types, TypeOK
      <4> QED
        BY <3>1, <4>1
    <3>3. CleanAdds'
      <4>1. ASSUME NEW u \in clean
            PROVE  me'[u].at \in {"addLoad", "addSwap", "count"}
        BY <1>0, <3>1 DEF Others, Clean, CleanAdds
      <4>2. Undisturbed => Undisturbed'
        BY <3>1 DEF Others, Undisturbed, Sweeping
      <4> QED
        BY <3>1, <4>1, <4>2 DEF Clean, CleanAdds
    <3>4. ASSUME NEW u \in clean, me'[u].at = "addSwap"
          PROVE  me'[u].val <= table'[CellOf(me'[u].hash, me'[u].pos)]
      <4>1. CASE u = t
        <5>1. me'[u].val = table'[n] /\ CellOf(me'[u].hash, me'[u].pos) = n
          BY <3>1, <3>4, <4>1 DEF n
        <5> QED
          BY <3>1, <3>2, <5>1
      <4>2. CASE u # t
        <5> DEFINE k == CellOf(me[u].hash, me[u].pos)
        <5>1. u \in Threads /\ me'[u] = me[u] /\ me[u].val \in Nat
          BY <1>0, <3>1, <4>2, TypesAt DEF Others, Local
        <5>2. me[u].val <= table[k] /\ k \in Cells
          BY <3>4, <5>1, TypesAt DEF Clean, CleanLoads
        <5> HIDE DEF k
        <5>3. me[u].val <= table'[k]
          BY <3>2, <5>1, <5>2
        <5> QED
          BY <5>1, <5>3 DEF k
      <4> QED
        BY <4>1, <4>2
    <3>5. CleanLoads'
      BY <3>1, <3>4 DEF CleanLoads, CellOf, Index
    <3>6. ResetOwes'
      BY <3>1 DEF Others, Clean, ResetOwes
    <3> QED
      BY <3>3, <3>5, <3>6 DEF Clean
  <2>3. CASE Count(t)
    <3>1. /\ me[t].at = "count" /\ Others(t) /\ UNCHANGED table
          /\ \/ /\ me'[t].at = "halveLoad" /\ clean' = {}
                /\ owed' = [c \in Columns |-> Credited(t)[c] \div 2]
             \/ /\ me'[t].at = "idle" /\ clean' = clean \ {t}
                /\ \A c \in Columns : owed'[c] = Credited(t)[c]
      BY <2>3, CountEffect
    <3>2. (CleanAdds /\ CleanLoads)'
      BY <3>1, StillClean DEF Clean, CleanAdds, Sweeping
    <3>3. ASSUME NEW u \in Threads, me'[u].at = "clear", NEW c \in Columns
          PROVE  owed'[c] = 0
      <4>1. me[u].at = "clear" /\ owed[c] = 0
        BY <3>1, <3>3 DEF Others, Clean, ResetOwes
      <4>2. t \notin clean
        BY <4>1 DEF Clean, CleanAdds, Undisturbed, Sweeping
      <4>3. Credited(t) = owed
        BY <4>2 DEF Credited
      <4> QED
        BY <3>1, <4>1, <4>3
    <3>4. ResetOwes'
      BY <3>3 DEF ResetOwes
    <3> QED
      BY <3>2, <3>4 DEF Clean
  <2>4. CASE HalveSwap(t)
    <3>1. /\ me[t].at = "halveSwap" /\ Others(t) /\ UNCHANGED <<owed, clean>>
          /\ me'[t].at # "clear"
      BY <2>4, HalveSwapEffect
    <3>2. clean' = {}
      BY <3>1, NobodyElse DEF Clean, Sweeping
    <3> QED
      BY <3>1, <3>2 DEF Others, Clean, CleanAdds, CleanLoads, ResetOwes
  <2>5. CASE ClearCell(t)
    <3>1. /\ me[t].at = "clear" /\ Others(t) /\ UNCHANGED <<owed, clean>>
      BY <2>5, ClearCellEffect
    <3>2. clean' = {}
      BY <3>1, NobodyElse DEF Clean, Sweeping
    <3> QED
      BY <3>1, <3>2 DEF Others, Clean, CleanAdds, CleanLoads, ResetOwes
  <2>6. CASE HalveLoad(t) \/ Read(t) \/ Return(t) \/ ClearKey(t) \/ ClearCount(t)
    <3>1. /\ Aside(t) /\ me'[t].at # "clear"
          /\ me'[t].at \in Sweeping => me[t].at \in Sweeping
      BY <2>6, AsideEffect DEF Sweeping
    <3> QED
      BY <1>2, <3>1
  <2> QED
    BY <1>3, <2>1, <2>2, <2>3, <2>4, <2>5, <2>6 DEF Step
<1>4. ASSUME NEW t \in Threads, NEW h \in Inputs, Record(t, h)
      PROVE  Clean'
  <2>1. CASE UNCHANGED <<me, clean>>
    <3>1. UNCHANGED <<me, clean, table, owed>>
      BY <1>4, <2>1, RecordEffect
    <3> QED
      BY <3>1 DEF Clean, CleanAdds, CleanLoads, ResetOwes, Undisturbed
  <2>2. CASE ~UNCHANGED <<me, clean>>
    <3>1. /\ me[t].at = "idle" /\ UNCHANGED <<table, owed>> /\ Others(t)
          /\ me'[t].at = "addLoad"
          /\ clean' = IF Undisturbed THEN clean \cup {t} ELSE clean
      BY <1>4, <2>2, RecordEffect
    <3>2. (CleanAdds /\ CleanLoads)'
      BY <3>1, StillClean DEF Clean, CleanAdds, Sweeping
    <3>3. ResetOwes'
      BY <3>1 DEF Others, Clean, ResetOwes
    <3> QED
      BY <3>2, <3>3 DEF Clean
  <2> QED
    BY <2>1, <2>2
<1>5. ASSUME NEW t \in Threads, NEW from \in Inputs, NEW to \in Inputs, Ask(t, from, to)
      PROVE  Clean'
  BY <1>2, <1>5, AsideEffect DEF Sweeping
<1>6. ASSUME NEW t \in Threads, Reset(t)
      PROVE  Clean'
  BY <1>6, ResetEffect DEF Clean, CleanAdds, CleanLoads, ResetOwes
<1> QED
  BY <1>1, <1>3, <1>4, <1>5, <1>6 DEF Next

\* The threads that have still to halve cell n, and those of the clean ones whose
\* add is past row i, in column c of row 0.
Halves(t) == me[t].at \in {"halveLoad", "halveSwap"}
HalversOf(n) == {t \in Threads : Halves(t) /\ me[t].pos <= n}
Passed(c, i) ==
    {t \in clean : /\ Index(me[t].hash, 0) = c
                   /\ me[t].at = "count" \/ me[t].pos > i}

\* What is owed is in the table after the halvings under way, and with what the
\* clean adds have put there already unless the counter is at its limit.
CreditHeld ==
    \A h \in Hashes, i \in Rows :
        owed[Index(h, 0)] <= Halvings(HalversOf(CellOf(h, i)), table[CellOf(h, i)])
CreditPassed ==
    \A h \in Hashes, i \in Rows :
        \/ table[CellOf(h, i)] = CounterMax
        \/ owed[Index(h, 0)] + Cardinality(Passed(Index(h, 0), i)) <= table[CellOf(h, i)]

LEMMA HalversFinite ==
    ASSUME IsFiniteSet(Busy)
    PROVE  \A n : /\ IsFiniteSet(HalversOf(n)) /\ Cardinality(HalversOf(n)) \in Nat
                  /\ \A Q : IsFiniteSet(Q \cap HalversOf(n))
<1>1. \A n : HalversOf(n) \subseteq Busy
  BY DEF HalversOf, Halves, Busy
<1>2. \A n : IsFiniteSet(HalversOf(n)) /\ Cardinality(HalversOf(n)) \in Nat
  BY <1>1, FS_Subset, FS_CardinalityType
<1>3. \A n, Q : Q \cap HalversOf(n) \subseteq HalversOf(n)
  OBVIOUS
<1> QED
  BY <1>2, <1>3, FS_Subset

LEMMA PassedFinite ==
    ASSUME IsFiniteSet(Busy), CleanAdds, clean \subseteq Threads
    PROVE  \A c, i : IsFiniteSet(Passed(c, i)) /\ Cardinality(Passed(c, i)) \in Nat
<1>1. \A c, i : Passed(c, i) \subseteq Busy
  BY DEF Passed, Busy, CleanAdds
<1> QED
  BY <1>1, FS_Subset, FS_CardinalityType

LEMMA CreditStep ==
    ASSUME Types, Types', Clean, Clean', CreditHeld, CreditPassed, [Next]_vars
    PROVE  (CreditHeld /\ CreditPassed)'
<1> SUFFICES ASSUME NEW h \in Hashes, NEW i \in Rows
             PROVE  /\ owed'[Index(h, 0)] <=
                        Halvings(HalversOf(CellOf(h, i))', table'[CellOf(h, i)])
                    /\ \/ table'[CellOf(h, i)] = CounterMax
                       \/ owed'[Index(h, 0)] + Cardinality(Passed(Index(h, 0), i)')
                            <= table'[CellOf(h, i)]
  BY DEF CreditHeld, CreditPassed, CellOf, Halvings
<1> DEFINE c == Index(h, 0)
           n == CellOf(h, i)
           H == HalversOf(n)
           P == Passed(c, i)
           Held == owed'[c] <= Halvings(H', table'[n])
           Counts == table'[n] = CounterMax \/ owed'[c] + Cardinality(P') <= table'[n]
<1>1. /\ c \in Columns /\ n \in Cells
      /\ \A g \in Hashes, j \in Rows : n = CellOf(g, j) <=> i = j /\ c = Index(g, 0)
  BY CellOfFacts
<1>2. /\ owed \in [Columns -> Counters] /\ owed' \in [Columns -> Counters]
      /\ table \in [Cells -> Counters] /\ table' \in [Cells -> Counters]
      /\ clean \subseteq Threads /\ clean' \subseteq Threads
      /\ IsFiniteSet(Busy) /\ IsFiniteSet(Busy')
      /\ CleanAdds /\ CleanAdds'
  BY DEF Types, TypeOK, HistoryType, Clean
<1>3. /\ owed[c] \in Nat /\ owed'[c] \in Nat /\ owed[c] <= CounterMax
      /\ table[n] \in Nat /\ table'[n] \in Nat
      /\ table[n] <= CounterMax /\ table'[n] <= CounterMax /\ CounterMax \in Nat
  BY <1>1, <1>2, ConstantFacts DEF Counters
<1>4. /\ IsFiniteSet(H) /\ IsFiniteSet(H')
      /\ IsFiniteSet(P) /\ Cardinality(P) \in Nat
      /\ IsFiniteSet(P') /\ Cardinality(P') \in Nat
  <2>1. IsFiniteSet(H) /\ IsFiniteSet(P) /\ Cardinality(P) \in Nat
    BY <1>2, HalversFinite, PassedFinite
  <2>2. H' \subseteq Busy' /\ P' \subseteq Busy'
    BY <1>2 DEF HalversOf, Halves, Passed, Busy, CleanAdds
  <2> QED
    BY <1>2, <2>1, <2>2, FS_Subset, FS_CardinalityType
<1>5. /\ owed[c] <= Halvings(H, table[n])
      /\ table[n] = CounterMax \/ owed[c] + Cardinality(P) <= table[n]
  BY DEF CreditHeld, CreditPassed
<1>6. \A t \in Threads :
        /\ t \in H <=> me[t].at \in {"halveLoad", "halveSwap"} /\ me[t].pos <= n
        /\ t \in H' <=> me'[t].at \in {"halveLoad", "halveSwap"} /\ me'[t].pos <= n
        /\ t \in P <=> /\ t \in clean /\ Index(me[t].hash, 0) = c
                       /\ me[t].at = "count" \/ me[t].pos > i
        /\ t \in P' <=> /\ t \in clean' /\ Index(me'[t].hash, 0) = c
                        /\ me'[t].at = "count" \/ me'[t].pos > i
  BY DEF HalversOf, Halves, Passed, CellOf, Index
<1>7. /\ H \subseteq Threads /\ H' \subseteq Threads
      /\ P \subseteq clean /\ P' \subseteq clean' /\ P \subseteq Threads /\ P' \subseteq Threads
  BY <1>2 DEF HalversOf, Passed
<1> HIDE DEF H, P, n, c
<1>8. ASSUME clean' = {}, Held
      PROVE  Held /\ Counts
  <2>1. Cardinality(P') = 0
    BY <1>7, <1>8, FS_EmptySet
  <2>2. Halvings(H', table'[n]) \in Nat /\ Halvings(H', table'[n]) <= table'[n]
    BY <1>3, <1>4, HalvingsFacts
  <2> QED
    BY <1>3, <1>8, <2>1, <2>2
\* Where nothing is credited, halved or taken away.
<1>9. ASSUME owed'[c] = owed[c], table[n] <= table'[n], H' = H, P' \subseteq P
      PROVE  Held /\ Counts
  <2>1. Cardinality(P') <= Cardinality(P)
    BY <1>4, <1>9, FS_Subset
  <2>2. /\ Halvings(H, table[n]) \in Nat /\ Halvings(H, table'[n]) \in Nat
        /\ Halvings(H, table[n]) <= Halvings(H, table'[n])
    BY <1>3, <1>4, <1>9, HalvingsFacts
  <2>3. Held
    BY <1>3, <1>5, <1>9, <2>2
  <2>4. Counts
    BY <1>3, <1>4, <1>5, <1>9, <2>1
  <2> QED
    BY <2>3, <2>4
<1>10. ASSUME NEW t \in Threads, Others(t),
              me[t].at \notin {"halveLoad", "halveSwap"},
              me'[t].at \notin {"halveLoad", "halveSwap"}
       PROVE  H' = H
  BY <1>6, <1>7, <1>10 DEF Others
<1>11. ASSUME NEW t \in Threads, Aside(t),
              me[t].at \notin {"halveLoad", "halveSwap"},
              me'[t].at \notin {"halveLoad", "halveSwap"}
       PROVE  Held /\ Counts
  <2>1. Others(t) /\ table' = table /\ owed' = owed /\ clean' = clean /\ t \notin clean
    BY <1>2, <1>11 DEF Aside, CleanAdds
  <2>2. P' \subseteq P
    BY <1>6, <1>7, <2>1 DEF Others
  <2>3. table[n] <= table'[n] /\ owed'[c] = owed[c]
    BY <1>3, <2>1
  <2> QED
    BY <1>9, <1>10, <1>11, <2>1, <2>2, <2>3
<1>12. ASSUME NEW t \in Threads, AddLoad(t)
       PROVE  Held /\ Counts
  <2>1. /\ me[t].at = "addLoad" /\ Others(t) /\ me'[t].at = "addSwap"
        /\ me'[t].pos = me[t].pos /\ me'[t].hash = me[t].hash
        /\ table' = table /\ owed' = owed /\ clean' = clean
    BY <1>12, AddLoadEffect
  <2>2. P' \subseteq P
    BY <1>6, <1>7, <2>1 DEF Others
  <2>3. table[n] <= table'[n] /\ owed'[c] = owed[c]
    BY <1>3, <2>1
  <2>4. H' = H
    BY <1>10, <2>1
  <2> QED
    BY <1>9, <2>2, <2>3, <2>4
<1>13. ASSUME NEW t \in Threads, AddSwap(t)
       PROVE  Held /\ Counts
  <2> DEFINE k == CellOf(me[t].hash, me[t].pos)
  <2>1. /\ me[t].at = "addSwap" /\ me[t].pos \in Rows /\ me[t].hash \in Hashes
        /\ k \in Cells /\ Others(t) /\ owed' = owed /\ clean' = clean
        /\ \/ me[t].val = CounterMax /\ table' = table /\ PastRow(t)
           \/ /\ PastRow(t) /\ table'[k] = table[k] + 1
              /\ \A l \in Cells \ {k} : table'[l] = table[l]
           \/ /\ table' = table /\ me'[t].at = "addSwap"
              /\ me'[t].pos = me[t].pos /\ me'[t].hash = me[t].hash
    BY <1>13, AddSwapEffect
  <2>2. i \in Nat /\ i <= Depth - 1 /\ me[t].pos \in Nat /\ Depth \in Nat
        /\ (n = k <=> i = me[t].pos /\ c = Index(me[t].hash, 0))
    BY <1>1, <2>1, SketchAssumption DEF Rows
  <2>3. t \in clean => me[t].val <= table[k]
    BY <2>1 DEF Clean, CleanLoads
  <2> HIDE DEF k
  <2>4. H' = H
    BY <1>10, <2>1 DEF PastRow
  <2>5. table[n] <= table'[n]
    BY <1>1, <1>3, <2>1
  <2>6. CASE P' \subseteq P
    BY <1>9, <2>1, <2>4, <2>5, <2>6
  <2>7. CASE ~(P' \subseteq P)
    <3>1. P' \ {t} = P \ {t}
      BY <1>6, <1>7, <2>1 DEF Others
    <3>2. t \in P' /\ t \notin P
      BY <2>7, <3>1
    <3>3. t \in clean /\ PastRow(t) /\ n = k
      BY <1>6, <2>1, <2>2, <3>2 DEF PastRow
    <3>4. Cardinality(P') = Cardinality(P) + 1
      BY <1>4, <3>1, <3>2, OneMoreOrLess
    <3>5. table'[n] = CounterMax \/ table'[n] = table[n] + 1
      <4>1. CASE me[t].at = "addSwap" /\ me[t].val = CounterMax /\ table' = table
        BY <1>3, <2>3, <3>3, <4>1
      <4>2. CASE table'[k] = table[k] + 1
        BY <3>3, <4>2
      <4>3. ~(me'[t].at = "addSwap")
        BY <3>3 DEF PastRow
      <4> QED
        BY <2>1, <4>1, <4>2, <4>3
    <3>6. Counts
      BY <1>3, <1>4, <1>5, <2>1, <3>4, <3>5
    <3>7. Held
      <4>1. /\ Halvings(H, table[n]) \in Nat /\ Halvings(H, table'[n]) \in Nat
            /\ Halvings(H, table[n]) <= Halvings(H, table'[n])
        BY <1>3, <1>4, <2>5, HalvingsFacts
      <4> QED
        BY <1>3, <1>5, <2>1, <2>4, <4>1
    <3> QED
      BY <3>6, <3>7
  <2> QED
    BY <2>6, <2>7
<1>14. ASSUME NEW t \in Threads, Count(t)
       PROVE  Held /\ Counts
  <2> DEFINE o == Credited(t)[c]
             d == Index(me[t].hash, 0)
  <2>1. /\ me[t].at = "count" /\ me[t].hash \in Hashes /\ Others(t) /\ table' = table
        /\ \/ /\ me'[t].at = "halveLoad" /\ me'[t].pos = 0
              /\ owed'[c] = o \div 2 /\ clean' = {}
           \/ /\ me'[t].at = "idle" /\ owed'[c] = o /\ clean' = clean \ {t}
    BY <1>1, <1>14, CountEffect
  <2>2. d \in Columns
    BY <2>1, IndexInRange, ConstantFacts
  <2>3. /\ t \notin clean \/ c # d => o = owed[c]
        /\ t \in clean /\ c = d =>
             o = IF owed[c] + 1 > CounterMax THEN CounterMax ELSE owed[c] + 1
    <3> DEFINE f == Bumped(owed, d, CounterMax)
    <3>1. owed \in [Columns -> 0 .. CounterMax] /\ CounterMax \in Nat
      BY <1>2, ConstantFacts DEF Counters
    <3>2. /\ \A e \in Columns \ {d} : f[e] = owed[e]
          /\ f[d] = IF owed[d] + 1 > CounterMax THEN CounterMax ELSE owed[d] + 1
      BY <2>2, <3>1, BumpedType
    <3>3. Credited(t) = IF t \in clean THEN f ELSE owed
      BY DEF Credited
    <3> HIDE DEF d, f
    <3> QED
      BY <1>1, <3>2, <3>3
  <2>4. t \in clean => H = {} /\ (c = d => t \in P)
    BY <1>2, <1>6, <1>7, <2>1 DEF CleanAdds, Undisturbed, Sweeping
  <2> HIDE DEF o, d
  <2>5. o \in Nat /\ o <= Halvings(H, table[n])
    <3>1. CASE t \notin clean \/ c # d
      BY <1>3, <1>5, <2>3, <3>1
    <3>2. CASE t \in clean /\ c = d
      <4>1. Halvings(H, table[n]) = table[n]
        BY <1>3, <2>4, <3>2, HalvingsOfNone
      <4>2. Cardinality(P) # 0
        BY <1>4, <2>4, <3>2, FS_EmptySet
      <4> QED
        BY <1>3, <1>4, <1>5, <2>3, <3>2, <4>1, <4>2
    <3> QED
      BY <3>1, <3>2
  <2>6. CASE /\ me'[t].at = "halveLoad" /\ me'[t].pos = 0
             /\ owed'[c] = o \div 2 /\ clean' = {}
    <3>1. t \notin H /\ H' = H \cup {t}
      <4>1. 0 <= n
        BY <1>1, ConstantFacts DEF Cells
      <4> QED
        BY <1>6, <1>7, <2>1, <2>6, <4>1 DEF Others
    <3>2. Halvings(H', table[n]) = Halvings(H, table[n]) \div 2
      BY <1>3, <1>4, <3>1, HalvingsStep
    <3>3. Halvings(H, table[n]) \in Nat
      BY <1>3, <1>4, HalvingsFacts
    <3>4. \A a \in Nat, b \in Nat : a <= b => a \div 2 <= b \div 2
      OBVIOUS
    <3>5. Held
      BY <2>1, <2>5, <2>6, <3>2, <3>3, <3>4
    <3> QED
      BY <1>8, <2>6, <3>5
  <2>7. CASE me'[t].at = "idle" /\ owed'[c] = o /\ clean' = clean \ {t}
    <3>1. H' = H
      BY <1>10, <2>1, <2>7
    <3>2. Held
      BY <2>1, <2>5, <2>7, <3>1
    <3>3. P' \ {t} = P \ {t} /\ t \notin P'
      BY <1>6, <1>7, <2>1, <2>7 DEF Others
    <3>4. CASE t \in clean /\ c = d
      <4>1. Cardinality(P') = Cardinality(P) - 1
        BY <1>4, <2>4, <3>3, <3>4, OneMoreOrLess
      <4> QED
        BY <1>3, <1>4, <1>5, <2>1, <2>3, <2>7, <3>2, <3>4, <4>1
    <3>5. CASE ~(t \in clean /\ c = d)
      <4>1. P' \subseteq P
        BY <3>3
      <4>2. Cardinality(P') <= Cardinality(P)
        BY <1>4, <4>1, FS_Subset
      <4> QED
        BY <1>3, <1>4, <1>5, <2>1, <2>3, <2>7, <3>2, <3>5, <4>2
    <3> QED
      BY <3>4, <3>5
  <2> QED
    BY <2>1, <2>6, <2>7
<1>15. ASSUME NEW t \in Threads, HalveLoad(t)
       PROVE  Held /\ Counts
  <2>1. /\ Aside(t) /\ me[t].at = "halveLoad" /\ me'[t].at = "halveSwap"
        /\ me'[t].pos = me[t].pos
    BY <1>15, AsideEffect
  <2>2. Others(t) /\ table' = table /\ owed' = owed /\ clean' = clean /\ t \notin clean
    BY <1>2, <2>1 DEF Aside, CleanAdds
  <2>3. P' \subseteq P /\ H' = H
    BY <1>6, <1>7, <2>1, <2>2 DEF Others
  <2>4. table[n] <= table'[n] /\ owed'[c] = owed[c]
    BY <1>3, <2>2
  <2> QED
    BY <1>9, <2>3, <2>4
<1>16. ASSUME NEW t \in Threads, HalveSwap(t)
       PROVE  Held /\ Counts
  <2> DEFINE k == me[t].pos
  <2>1. /\ me[t].at = "halveSwap" /\ k \in Cells /\ Others(t)
        /\ owed' = owed /\ clean' = clean
        /\ \/ /\ table'[k] = table[k] \div 2
              /\ \A l \in Cells \ {k} : table'[l] = table[l]
              /\ IF k = Depth * Width - 1 THEN me'[t].at = "idle"
                 ELSE me'[t].at = "halveLoad" /\ me'[t].pos = k + 1
           \/ table' = table /\ me'[t].at = "halveSwap" /\ me'[t].pos = k
    BY <1>16, HalveSwapEffect
  <2>2. clean' = {}
    BY <1>2, <2>1, NobodyElse DEF Sweeping
  <2>3. n \in Nat /\ k \in Nat /\ n <= Depth * Width - 1 /\ k <= Depth * Width - 1
    BY <1>1, <2>1, ConstantFacts DEF Cells
  <2>4. t \in H <=> k <= n
    BY <1>6, <2>1
  <2>5. /\ H \ {t} = H' \ {t}
    BY <1>6, <1>7, <2>1 DEF Others
  <2> HIDE DEF k
  <2>6. CASE k = n /\ me'[t].at # "halveSwap"
    <3>0. table'[k] = table[k] \div 2
      BY <2>1, <2>6
    <3>1. t \notin H'
      <4>1. me'[t].at = "idle" \/ me'[t].pos = n + 1
        BY <2>1, <2>6
      <4> QED
        BY <1>6, <2>3, <4>1
    <3>2. H = H' \cup {t}
      BY <2>3, <2>4, <2>5, <2>6, <3>1
    <3>3. Halvings(H, table[n]) = Halvings(H', table[n] \div 2)
      BY <1>3, <1>4, <3>1, <3>2, HalvingsStep
    <3>4. Held
      BY <1>5, <2>1, <2>6, <3>0, <3>3
    <3> QED
      BY <1>8, <2>2, <3>4
  <2>7. CASE k # n \/ me'[t].at = "halveSwap"
    <3>1. table'[n] = table[n]
      BY <1>1, <2>1, <2>7
    <3>2. H' = H
      <4>1. t \in H' <=> k <= n
        <5>1. CASE me'[t].at = "halveSwap"
          BY <1>6, <2>1, <5>1
        <5>2. CASE me'[t].at = "idle" /\ k = Depth * Width - 1
          BY <1>6, <2>3, <2>7, <5>2
        <5>3. CASE me'[t].at = "halveLoad" /\ me'[t].pos = k + 1
          BY <1>6, <2>3, <2>7, <5>3
        <5> QED
          BY <2>1, <5>1, <5>2, <5>3
      <4> QED
        BY <2>4, <2>5, <4>1
    <3>3. P' \subseteq P
      BY <1>7, <2>2
    <3> QED
      BY <1>3, <1>9, <2>1, <3>1, <3>2, <3>3
  <2> QED
    BY <2>1, <2>6, <2>7
<1>17. ASSUME NEW t \in Threads, ClearCell(t) \/ Reset(t)
       PROVE  Held /\ Counts
  <2>1. clean' = {}
    <3>1. CASE ClearCell(t)
      BY <1>2, <3>1, ClearCellEffect, NobodyElse DEF Sweeping
    <3>2. CASE Reset(t)
      BY <3>2, ResetEffect
    <3> QED
      BY <1>17, <3>1, <3>2
  <2>2. owed'[c] = 0
    BY <1>1, <1>17, ClearCellEffect, ResetEffect DEF Clean, ResetOwes
  <2>3. Halvings(H', table'[n]) \in Nat
    BY <1>3, <1>4, HalvingsFacts
  <2>4. Held
    BY <2>2, <2>3
  <2> QED
    BY <1>8, <2>1, <2>4
<1>18. ASSUME NEW t \in Threads, NEW g \in Inputs, Record(t, g)
       PROVE  Held /\ Counts
  <2>1. /\ me[t].at = "idle" /\ table' = table /\ owed' = owed
        /\ \/ me' = me /\ clean' = clean
           \/ /\ Others(t) /\ me'[t].at = "addLoad" /\ me'[t].pos = 0
              /\ clean' \subseteq clean \cup {t}
    BY <1>18, RecordEffect
  <2>2. i \in Nat /\ ~(0 > i)
    BY SketchAssumption DEF Rows
  <2>3. H' = H /\ P' \subseteq P
    <3>1. CASE me' = me /\ clean' = clean
      BY <1>6, <1>7, <3>1
    <3>2. CASE /\ Others(t) /\ me'[t].at = "addLoad" /\ me'[t].pos = 0
               /\ clean' \subseteq clean \cup {t}
      <4>1. H' = H
        BY <1>10, <2>1, <3>2
      <4>2. P' \subseteq P
        BY <1>6, <1>7, <2>2, <3>2 DEF Others
      <4> QED
        BY <4>1, <4>2
    <3> QED
      BY <2>1, <3>1, <3>2
  <2>4. table[n] <= table'[n] /\ owed'[c] = owed[c]
    BY <1>3, <2>1
  <2> QED
    BY <1>9, <2>3, <2>4
<1>19. ASSUME NEW t \in Threads,
              \/ Read(t) \/ Return(t) \/ ClearKey(t) \/ ClearCount(t)
              \/ \E from, to \in Inputs : Ask(t, from, to)
       PROVE  Held /\ Counts
  <2>1. /\ Aside(t) /\ me[t].at \notin {"halveLoad", "halveSwap"}
        /\ me'[t].at \notin {"halveLoad", "halveSwap"}
    BY <1>19, AsideEffect
  <2> QED
    BY <1>11, <2>1
<1>20. ASSUME UNCHANGED vars
       PROVE  Held /\ Counts
  <2>1. H' = H /\ P' \subseteq P /\ table'[n] = table[n] /\ owed'[c] = owed[c]
    BY <1>6, <1>7, <1>20 DEF vars
  <2> QED
    BY <1>3, <1>9, <2>1
<1>21. ASSUME Next
       PROVE  Held /\ Counts
  <2> HIDE DEF Held, Counts
  <2> QED
    BY <1>12, <1>13, <1>14, <1>15, <1>16, <1>17, <1>18, <1>19, <1>21 DEF Next, Step
<1>22. Held /\ Counts
  BY <1>20, <1>21
<1> QED
  BY <1>22 DEF H, P, n, c

-----------------------------------------------------------------------------
(* Aging keeps up.                                                         *)

\* The cells of row i.
RowCells(i) == {i * Width + c : c \in Columns}

\* The threads that have still to halve a cell of row i, and those whose add has
\* still to reach it.
HalversIn(i) == {t \in Threads : Halves(t) /\ me[t].pos < i * Width + Width}
ToAdd(i) ==
    {t \in Threads : me[t].at \in {"addLoad", "addSwap"} /\ me[t].pos <= i}

\* The counts of row i once the threads of Q are through with their halvings.
Foreseen(i, Q) ==
    [n \in RowCells(i) |-> Halvings(Q \cap HalversOf(n), table[n])]

\* Whichever of the halvings under way one waits for: the counts of a row that are
\* left then, with the adds under way, are within the bound that allows a period
\* for each of the others.
AgingKept ==
    \A i \in Rows : \A Q \in SUBSET HalversIn(i) :
        Total(Foreseen(i, Q), RowCells(i)) + Cardinality(ToAdd(i))
            <= AgePeriod + Counted
                 + AgePeriod * Cardinality(HalversIn(i) \ Q) + Cardinality(Adding)

LEMMA RowCellsFacts ==
    ASSUME NEW i \in Rows
    PROVE  /\ IsFiniteSet(RowCells(i)) /\ RowCells(i) \subseteq Cells
           /\ i * Width \in Nat
           /\ RowCells(i) = i * Width .. i * Width + Width - 1
           /\ \A h \in Hashes, j \in Rows : CellOf(h, j) \in RowCells(i) => j = i
<1>1. i \in Nat /\ Width \in Nat \ {0} /\ i * Width \in Nat
  BY SketchAssumption DEF Rows
<1>2. RowCells(i) = i * Width .. i * Width + Width - 1
  <2> DEFINE b == i * Width
  <2>1. b \in Nat
    BY <1>1
  <2> HIDE DEF b
  <2>2. {b + c : c \in Columns} = b .. b + Width - 1
    <3>1. ASSUME NEW n \in b .. b + Width - 1
          PROVE  n \in {b + c : c \in Columns}
      <4>1. n - b \in Columns /\ n = b + (n - b)
        BY <1>1, <2>1 DEF Columns
      <4> QED
        BY <4>1
    <3>2. ASSUME NEW c \in Columns
          PROVE  b + c \in b .. b + Width - 1
      BY <1>1, <2>1 DEF Columns
    <3> QED
      BY <3>1, <3>2
  <2> QED
    BY <2>2 DEF RowCells, b
<1>3. \A c \in Columns : i * Width + c \in Cells
  BY CellsApart DEF Cell
<1>4. RowCells(i) \subseteq Cells
  BY <1>3 DEF RowCells
<1>5. IsFiniteSet(RowCells(i))
  <2>1. i * Width \in Int /\ i * Width + Width - 1 \in Int
    BY <1>1
  <2> QED
    BY <1>2, <2>1, FS_Interval
<1>6. ASSUME NEW h \in Hashes, NEW j \in Rows, CellOf(h, j) \in RowCells(i)
      PROVE  j = i
  <2>1. PICK c \in Columns : CellOf(h, j) = Cell(i, c)
    BY <1>6 DEF RowCells, Cell
  <2>2. CellOf(h, j) = Cell(j, Index(h, j)) /\ Index(h, j) \in Columns
    BY IndexInRange DEF CellOf, Cell
  <2> QED
    BY <2>1, <2>2, CellsApart
<1> QED
  BY <1>1, <1>2, <1>4, <1>5, <1>6

\* The counter goes around.
LEMMA CounterFacts ==
    ASSUME NEW k \in 0 .. AgePeriod - 1
    PROVE  /\ k % AgePeriod = k
           /\ (k + AgePeriod - 1) % AgePeriod = IF k = 0 THEN AgePeriod - 1 ELSE k - 1
           /\ (k + 1) % AgePeriod = IF k + 1 = AgePeriod THEN 0 ELSE k + 1
<1> DEFINE P == AgePeriod
<1>1. P \in Nat \ {0} /\ 0 \in Nat /\ 1 \in Nat
  BY ConstantFacts
<1> HIDE DEF P
<1>2. \A r \in 0 .. P - 1 : (P * 0 + r) % P = r /\ (P * 1 + r) % P = r
  BY <1>1, ModUnique
<1>3. \A r \in 0 .. P - 1 : P * 0 + r = r /\ P * 1 + r = P + r
  BY <1>1
<1>4. k \in 0 .. P - 1
  BY DEF P
<1>5. k % P = k
  BY <1>2, <1>3, <1>4
<1>7. (k + P - 1) % P = IF k = 0 THEN P - 1 ELSE k - 1
  <2>1. CASE k = 0
    <3>1. P - 1 \in 0 .. P - 1 /\ k + P - 1 = P - 1
      BY <1>1, <2>1
    <3> QED
      BY <1>2, <1>3, <2>1, <3>1
  <2>2. CASE k # 0
    <3>1. k - 1 \in 0 .. P - 1 /\ k + P - 1 = P + (k - 1)
      BY <1>1, <1>4, <2>2
    <3> QED
      BY <1>2, <1>3, <2>2, <3>1
  <2> QED
    BY <2>1, <2>2
<1>8. (k + 1) % P = IF k + 1 = P THEN 0 ELSE k + 1
  <2>1. CASE k + 1 = P
    <3>1. 0 \in 0 .. P - 1 /\ k + 1 = P + 0
      BY <1>1, <2>1
    <3> QED
      BY <1>2, <1>3, <2>1, <3>1
  <2>2. CASE k + 1 # P
    <3>1. k + 1 \in 0 .. P - 1
      BY <1>1, <1>4, <2>2
    <3> QED
      BY <1>2, <1>3, <2>2, <3>1
  <2> QED
    BY <2>1, <2>2
<1> QED
  BY <1>5, <1>7, <1>8 DEF P

LEMMA Products ==
    \A m \in Nat, k \in Nat : m * k \in Nat /\ m * (k + 1) = m * k + m
<1>1. ASSUME NEW m \in Nat, NEW k \in Nat
      PROVE  m * k \in Nat /\ m * (k + 1) = m * k + m
  OBVIOUS
<1> QED
  BY <1>1

LEMMA HalversInFinite ==
    ASSUME IsFiniteSet(Busy)
    PROVE  \A i : /\ IsFiniteSet(HalversIn(i)) /\ IsFiniteSet(ToAdd(i))
                  /\ IsFiniteSet(Adding)
<1>1. \A i : /\ HalversIn(i) \subseteq Busy /\ ToAdd(i) \subseteq Busy
             /\ Adding \subseteq Busy
  BY DEF HalversIn, Halves, ToAdd, Adding, Busy
<1> QED
  BY <1>1, FS_Subset

LEMMA AgingStep ==
    ASSUME Types, Types', AgingKept, [Next]_vars
    PROVE  AgingKept'
<1> SUFFICES ASSUME NEW i \in Rows, NEW Q \in SUBSET (HalversIn(i)')
             PROVE  Total(Foreseen(i, Q)', RowCells(i)) + Cardinality(ToAdd(i)')
                      <= AgePeriod + Counted'
                           + AgePeriod * Cardinality(HalversIn(i)' \ Q)
                           + Cardinality(Adding')
  BY DEF AgingKept, RowCells
<1> DEFINE S == RowCells(i)
           f(R) == Foreseen(i, R)
           g == Foreseen(i, Q)'
           I == HalversIn(i)
           D == ToAdd(i)
           P == AgePeriod
           b == i * Width
           Goal == Total(g, S) + Cardinality(D')
                     <= P + Counted' + P * Cardinality(I' \ Q) + Cardinality(Adding')
<1>1. /\ IsFiniteSet(S) /\ S \subseteq Cells /\ b \in Nat /\ S = b .. b + Width - 1
      /\ \A h \in Hashes, j \in Rows : CellOf(h, j) \in S => j = i
      /\ P \in Nat \ {0} /\ Width \in Nat \ {0}
  BY RowCellsFacts, ConstantFacts
<1>2. /\ IsFiniteSet(I) /\ IsFiniteSet(I') /\ IsFiniteSet(D) /\ IsFiniteSet(D')
      /\ IsFiniteSet(Adding) /\ IsFiniteSet(Adding')
      /\ \A n, R : IsFiniteSet(R \cap HalversOf(n)) /\ IsFiniteSet(R \cap HalversOf(n)')
  <2>1. /\ I' \subseteq Busy' /\ D' \subseteq Busy' /\ Adding' \subseteq Busy'
        /\ \A n, R : R \cap HalversOf(n)' \subseteq Busy'
    BY DEF HalversIn, HalversOf, Halves, ToAdd, Adding, Busy
  <2>2. IsFiniteSet(Busy) /\ IsFiniteSet(Busy')
    BY DEF Types
  <2> QED
    BY <2>1, <2>2, HalversInFinite, HalversFinite, FS_Subset
<1>3. /\ \A n \in Cells : table[n] \in Nat /\ table'[n] \in Nat
      /\ counter \in 0 .. P - 1 /\ counter' \in 0 .. P - 1
  BY ConstantFacts DEF Types, TypeOK
<1>4. /\ Counted = IF counter = 0 THEN P - 1 ELSE counter - 1
      /\ Counted' = IF counter' = 0 THEN P - 1 ELSE counter' - 1
  BY <1>3, CounterFacts DEF Counted
<1>5. \A t \in Threads :
        /\ \A n : /\ t \in HalversOf(n) <=> Halves(t) /\ me[t].pos <= n
                  /\ t \in HalversOf(n)' <=> Halves(t)' /\ me'[t].pos <= n
        /\ t \in I <=> Halves(t) /\ me[t].pos < b + Width
        /\ t \in I' <=> Halves(t)' /\ me'[t].pos < b + Width
        /\ t \in D <=> me[t].at \in {"addLoad", "addSwap"} /\ me[t].pos <= i
        /\ t \in D' <=> me'[t].at \in {"addLoad", "addSwap"} /\ me'[t].pos <= i
        /\ t \in Adding <=> me[t].at \in {"addLoad", "addSwap", "count"}
        /\ t \in Adding' <=> me'[t].at \in {"addLoad", "addSwap", "count"}
  BY DEF HalversOf, HalversIn, ToAdd, Adding
<1>6. /\ I \subseteq Threads /\ I' \subseteq Threads
      /\ D \subseteq Threads /\ D' \subseteq Threads
      /\ Adding \subseteq Threads /\ Adding' \subseteq Threads
      /\ \A n : HalversOf(n) \subseteq Threads /\ HalversOf(n)' \subseteq Threads
      /\ D \subseteq Adding /\ D' \subseteq Adding'
  BY DEF HalversIn, HalversOf, ToAdd, Adding
<1>7. \A n \in S : /\ g[n] = Halvings(Q \cap HalversOf(n)', table'[n])
                   /\ g[n] \in Nat
  <2>1. \A n \in S : g[n] = Halvings(Q \cap HalversOf(n)', table'[n])
    BY DEF Foreseen, Halvings, RowCells
  <2> HIDE DEF g, S
  <2>2. \A n \in S : table'[n] \in Nat /\ IsFiniteSet(Q \cap HalversOf(n)')
    BY <1>1, <1>2, <1>3
  <2> QED
    BY <2>1, <2>2, HalvingsFacts
<1>8. \A R : \A n \in S : /\ f(R)[n] = Halvings(R \cap HalversOf(n), table[n])
                          /\ f(R)[n] \in Nat
  <2>1. \A R : \A n \in S : f(R)[n] = Halvings(R \cap HalversOf(n), table[n])
    BY DEF Foreseen
  <2> HIDE DEF f, S
  <2>2. \A R : \A n \in S : table[n] \in Nat /\ IsFiniteSet(R \cap HalversOf(n))
    BY <1>1, <1>2, <1>3
  <2> QED
    BY <2>1, <2>2, HalvingsFacts
<1>9. \A R \in SUBSET I :
         Total(f(R), S) + Cardinality(D)
            <= P + Counted + P * Cardinality(I \ R) + Cardinality(Adding)
  BY DEF AgingKept
<1>10. /\ Total(g, S) \in Nat
       /\ Cardinality(D) \in Nat /\ Cardinality(D') \in Nat
       /\ Cardinality(Adding) \in Nat /\ Cardinality(Adding') \in Nat
       /\ Counted \in Nat /\ Counted' \in Nat
       /\ IsFiniteSet(I' \ Q) /\ Cardinality(I' \ Q) \in Nat
       /\ \A R : /\ Total(f(R), S) \in Nat
                 /\ IsFiniteSet(I \ R) /\ Cardinality(I \ R) \in Nat
  <2>1. Total(g, S) \in Nat
    <3> HIDE DEF g, S
    <3> QED
      BY <1>1, <1>7, SumIsSize
  <2>2. \A R : Total(f(R), S) \in Nat
    <3> HIDE DEF f, S
    <3> QED
      BY <1>1, <1>8, SumIsSize
  <2>3. Counted \in Nat /\ Counted' \in Nat
    <3>1. \A k \in 0 .. P - 1 : (IF k = 0 THEN P - 1 ELSE k - 1) \in Nat
      BY <1>1
    <3> QED
      BY <1>3, <1>4, <3>1
  <2>4. I' \ Q \subseteq I' /\ \A R : I \ R \subseteq I
    OBVIOUS
  <2>5. /\ \A R : IsFiniteSet(I \ R) /\ IsFiniteSet(I' \ Q)
    <3> HIDE DEF I
    <3> QED
      BY <1>2, <2>4, FS_Subset
  <2> QED
    BY <1>2, <2>1, <2>2, <2>3, <2>5, FS_CardinalityType
<1> HIDE DEF S, f, g, I, D, b
\* Where nothing is added or halved, and the counter does not go back.
<1>11. ASSUME \A n \in S : HalversOf(n)' = HalversOf(n) /\ table'[n] <= table[n],
              I' = I, D' \subseteq D, Adding' = Adding, Counted <= Counted'
       PROVE  Goal
  <2>1. \A n \in S : g[n] \in Nat /\ f(Q)[n] \in Nat /\ g[n] <= f(Q)[n]
    <3> SUFFICES ASSUME NEW n \in S
                 PROVE  g[n] <= f(Q)[n]
      BY <1>7, <1>8
    <3>1. /\ g[n] = Halvings(Q \cap HalversOf(n), table'[n])
          /\ f(Q)[n] = Halvings(Q \cap HalversOf(n), table[n])
      BY <1>7, <1>8, <1>11
    <3>2. IsFiniteSet(Q \cap HalversOf(n)) /\ table'[n] <= table[n]
          /\ table[n] \in Nat /\ table'[n] \in Nat
      BY <1>1, <1>2, <1>3, <1>11
    <3> QED
      BY <3>1, <3>2, HalvingsFacts
  <2>2. Total(g, S) <= Total(f(Q), S)
    BY <1>1, <2>1, SumMonotone
  <2>3. Cardinality(D') <= Cardinality(D)
    BY <1>2, <1>11, FS_Subset
  <2>4. Total(f(Q), S) + Cardinality(D)
          <= P + Counted + P * Cardinality(I \ Q) + Cardinality(Adding)
    BY <1>9, <1>11 DEF I
  <2>5. I' \ Q = I \ Q
    BY <1>11
  <2> DEFINE e == P * Cardinality(I \ Q)
             l == Total(f(Q), S)
  <2>6. e \in Nat /\ P * Cardinality(I' \ Q) = e /\ l \in Nat /\ P \in Nat
    BY <1>1, <1>10, <2>5, Products
  <2> HIDE DEF e, l, P
  <2>7. l + Cardinality(D) <= P + Counted + e + Cardinality(Adding)
    BY <2>4 DEF e, l
  <2>8. Total(g, S) <= l
    BY <2>2 DEF l
  <2>9. /\ Total(g, S) \in Nat /\ Cardinality(D) \in Nat /\ Cardinality(D') \in Nat
        /\ Cardinality(Adding) \in Nat /\ Counted \in Nat /\ Counted' \in Nat
        /\ Adding' = Adding /\ Counted <= Counted'
    BY <1>10, <1>11
  <2>10. Total(g, S) + Cardinality(D') <= P + Counted' + e + Cardinality(Adding')
    BY <2>3, <2>6, <2>7, <2>8, <2>9
  <2> QED
    BY <2>6, <2>10
<1>12. ASSUME NEW t \in Threads, Others(t), ~Halves(t), ~(Halves(t)')
       PROVE  /\ \A n : HalversOf(n)' = HalversOf(n)
              /\ I' = I
  <2>1. \A u \in Threads : Halves(u)' = Halves(u) /\ (Halves(u) => me'[u] = me[u])
    BY <1>12 DEF Others, Halves
  <2> QED
    BY <1>5, <1>6, <2>1
<1>13. ASSUME NEW t \in Threads, Aside(t), Counted <= Counted',
              \/ ~Halves(t) /\ ~(Halves(t)')
              \/ Halves(t) /\ Halves(t)' /\ me'[t].pos = me[t].pos
       PROVE  Goal
  <2>1. Others(t) /\ table' = table
    BY <1>13 DEF Aside
  <2>2. /\ \A n : HalversOf(n)' = HalversOf(n)
        /\ I' = I
    <3>1. CASE ~Halves(t)
      BY <1>12, <1>13, <2>1, <3>1
    <3>2. CASE Halves(t)
      <4>1. \A u \in Threads :
              Halves(u)' = Halves(u) /\ (Halves(u) => me'[u].pos = me[u].pos)
        BY <1>13, <2>1, <3>2 DEF Others, Halves
      <4> QED
        BY <1>5, <1>6, <4>1
    <3> QED
      BY <3>1, <3>2
  <2>3. D' \subseteq D /\ Adding' = Adding
    BY <1>5, <1>6, <1>13, <2>1 DEF Others, Aside
  <2>4. \A n \in S : table'[n] <= table[n]
    BY <1>1, <1>3, <2>1
  <2> QED
    BY <1>11, <1>13, <2>2, <2>3, <2>4
<1>14. counter' = counter => Counted <= Counted'
  BY <1>4, <1>10
<1>15. ASSUME NEW t \in Threads, AddLoad(t)
       PROVE  Goal
  <2>1. /\ me[t].at = "addLoad" /\ Others(t) /\ me'[t].at = "addSwap"
        /\ me'[t].pos = me[t].pos /\ table' = table /\ counter' = counter
    BY <1>15, AddLoadEffect
  <2>2. ~Halves(t) /\ ~(Halves(t)')
    BY <2>1 DEF Halves
  <2>3. D' \subseteq D /\ Adding' = Adding
    BY <1>5, <1>6, <2>1 DEF Others
  <2>4. \A n \in S : table'[n] <= table[n]
    BY <1>1, <1>3, <2>1
  <2> QED
    BY <1>11, <1>12, <1>14, <2>1, <2>2, <2>3, <2>4
\* An add goes from the adds under way into the row, if it is not at its limit.
<1>16. ASSUME NEW t \in Threads, AddSwap(t)
       PROVE  Goal
  <2> DEFINE k == CellOf(me[t].hash, me[t].pos)
  <2>1. /\ me[t].at = "addSwap" /\ me[t].pos \in Rows /\ me[t].hash \in Hashes
        /\ k \in Cells /\ Others(t) /\ counter' = counter
        /\ \/ table' = table /\ PastRow(t)
           \/ /\ PastRow(t) /\ table'[k] = table[k] + 1
              /\ \A l \in Cells \ {k} : table'[l] = table[l]
           \/ /\ table' = table /\ me'[t].at = "addSwap" /\ me'[t].pos = me[t].pos
    BY <1>16, AddSwapEffect
  <2>2. k \in S => me[t].pos = i
    BY <1>1, <2>1
  <2>3. i \in Nat /\ me[t].pos \in Nat
    BY <2>1, SketchAssumption DEF Rows
  <2> HIDE DEF k
  <2>4. /\ I' = I /\ \A n : HalversOf(n)' = HalversOf(n)
    BY <1>12, <2>1 DEF Halves, PastRow
  <2>5. Adding' = Adding
    BY <1>5, <1>6, <2>1 DEF Others, PastRow
  <2>6. D' \subseteq D
    BY <1>5, <1>6, <2>1, <2>3 DEF Others, PastRow
  <2>7. CASE \A n \in S : table'[n] <= table[n]
    BY <1>11, <1>14, <2>1, <2>4, <2>5, <2>6, <2>7
  <2>8. CASE ~\A n \in S : table'[n] <= table[n]
    <3>1. /\ k \in S /\ PastRow(t) /\ table'[k] = table[k] + 1
          /\ \A l \in Cells \ {k} : table'[l] = table[l]
      BY <1>1, <1>3, <2>1, <2>8
    <3>2. t \in D /\ t \notin D' /\ D \ {t} = D' \ {t}
      BY <1>5, <1>6, <2>1, <2>2, <2>3, <3>1 DEF Others, PastRow
    <3>3. Cardinality(D') = Cardinality(D) - 1
      BY <1>2, <3>2, OneMoreOrLess
    <3>4. Total(g, S) <= Total(f(Q), S) + 1
      <4>1. \A n \in S : /\ g[n] = Halvings(Q \cap HalversOf(n), table'[n])
                         /\ f(Q)[n] = Halvings(Q \cap HalversOf(n), table[n])
                         /\ g[n] \in Nat /\ f(Q)[n] \in Nat
        BY <1>7, <1>8, <2>4
      <4>2. \A n \in S \ {k} : g[n] <= f(Q)[n]
        <5> SUFFICES ASSUME NEW n \in S \ {k}
                     PROVE  g[n] <= f(Q)[n]
          OBVIOUS
        <5>1. table'[n] = table[n]
          BY <1>1, <3>1
        <5>2. g[n] = f(Q)[n]
          BY <4>1, <5>1
        <5>3. g[n] \in Nat
          BY <1>7
        <5> QED
          BY <5>2, <5>3
      <4>3. g[k] <= f(Q)[k] + 1
        <5>1. IsFiniteSet(Q \cap HalversOf(k)) /\ table[k] \in Nat
          BY <1>1, <1>2, <1>3, <3>1
        <5>2. Halvings(Q \cap HalversOf(k), table[k] + 1)
                <= Halvings(Q \cap HalversOf(k), table[k]) + 1
          BY <5>1, HalvingsFacts
        <5> QED
          BY <3>1, <4>1, <5>2
      <4> QED
        BY <1>1, <3>1, <4>1, <4>2, <4>3, SumPlusOne
    <3>5. Total(f(Q), S) + Cardinality(D)
            <= P + Counted + P * Cardinality(I \ Q) + Cardinality(Adding)
      BY <1>9, <2>4 DEF I
    <3>6. I' \ Q = I \ Q /\ Counted' = Counted
      BY <1>4, <2>1, <2>4
    <3> DEFINE e == P * Cardinality(I \ Q)
               l == Total(f(Q), S)
    <3>7. e \in Nat /\ P * Cardinality(I' \ Q) = e /\ l \in Nat /\ P \in Nat
      BY <1>1, <1>10, <3>6, Products
    <3>8. l + Cardinality(D) <= P + Counted + e + Cardinality(Adding) /\ Total(g, S) <= l + 1
      BY <3>4, <3>5
    <3> HIDE DEF e, l, P
    <3>9. Total(g, S) + Cardinality(D') <= P + Counted' + e + Cardinality(Adding')
      BY <1>10, <2>5, <3>3, <3>6, <3>7, <3>8
    <3> QED
      BY <3>7, <3>9
  <2> QED
    BY <2>7, <2>8
\* A period that ends allows for one halving more, which takes half of the row.
<1>17. ASSUME NEW t \in Threads, Count(t)
       PROVE  Goal
  <2>1. /\ me[t].at = "count" /\ Others(t) /\ table' = table
        /\ counter' = (counter + 1) % P
        /\ \/ counter % P = 0 /\ me'[t].at = "halveLoad" /\ me'[t].pos = 0
           \/ counter % P # 0 /\ me'[t].at = "idle"
    BY <1>17, CountEffect
  <2>2. counter % P = counter /\ counter' = IF counter + 1 = P THEN 0 ELSE counter + 1
    BY <1>3, <2>1, CounterFacts
  <2>3. D' = D /\ t \notin D
    BY <1>5, <1>6, <2>1 DEF Others
  <2>4. t \in Adding /\ t \notin Adding' /\ Adding \ {t} = Adding' \ {t}
    BY <1>5, <1>6, <2>1 DEF Others
  <2>5. Cardinality(Adding') = Cardinality(Adding) - 1
    BY <1>2, <2>4, OneMoreOrLess
  <2>6. Cardinality(D) <= Cardinality(Adding')
    <3>1. D \subseteq Adding'
      BY <1>6, <2>3
    <3> QED
      BY <1>2, <3>1, FS_Subset
  <2>7. t \notin I /\ \A n : t \notin HalversOf(n)
    BY <1>5, <2>1 DEF Halves
  <2>8. CASE counter # 0
    <3>1. Counted' = Counted + 1
      BY <1>1, <1>3, <1>4, <2>2, <2>8
    <3>2. me'[t].at = "idle"
      BY <2>1, <2>2, <2>8
    <3>3. I' = I /\ \A n : HalversOf(n)' = HalversOf(n)
      BY <1>12, <2>1, <3>2 DEF Halves
    <3>4. \A n \in S : g[n] \in Nat /\ f(Q)[n] \in Nat /\ g[n] <= f(Q)[n]
      <4>1. \A n \in S : g[n] = f(Q)[n] /\ g[n] \in Nat
        BY <1>7, <1>8, <2>1, <3>3
      <4> QED
        BY <4>1
    <3>5. Total(g, S) <= Total(f(Q), S)
      BY <1>1, <3>4, SumMonotone
    <3>6. Total(f(Q), S) + Cardinality(D)
            <= P + Counted + P * Cardinality(I \ Q) + Cardinality(Adding)
      BY <1>9, <3>3 DEF I
    <3> DEFINE e == P * Cardinality(I \ Q)
               l == Total(f(Q), S)
    <3>7. e \in Nat /\ P * Cardinality(I' \ Q) = e /\ l \in Nat /\ P \in Nat
      BY <1>1, <1>10, <3>3, Products
    <3>8. l + Cardinality(D) <= P + Counted + e + Cardinality(Adding) /\ Total(g, S) <= l
      BY <3>5, <3>6
    <3> HIDE DEF e, l, P
    <3>9. Total(g, S) + Cardinality(D') <= P + Counted' + e + Cardinality(Adding')
      BY <1>10, <2>3, <2>5, <3>1, <3>7, <3>8
    <3> QED
      BY <3>7, <3>9
  <2>9. CASE counter = 0
    <3>1. Counted = P - 1 /\ Counted' = 0
      BY <1>1, <1>3, <1>4, <2>2, <2>9
    <3>2. me'[t].at = "halveLoad" /\ me'[t].pos = 0
      BY <2>1, <2>2, <2>9
    <3>3. I' = I \cup {t}
      BY <1>1, <1>5, <1>6, <2>1, <3>2 DEF Others, Halves
    <3>4. \A n \in Nat : HalversOf(n)' = HalversOf(n) \cup {t}
      <4> SUFFICES ASSUME NEW n \in Nat
                   PROVE  HalversOf(n)' = HalversOf(n) \cup {t}
        OBVIOUS
      <4>1. 0 <= n
        OBVIOUS
      <4> QED
        BY <1>5, <1>6, <2>1, <3>2, <4>1 DEF Others, Halves
    <3>5. S \subseteq Nat
      BY <1>1
    <3>6. CASE t \notin Q
      <4>1. Q \in SUBSET I
        BY <3>3, <3>6 DEF I
      <4>2. \A n \in S : g[n] \in Nat /\ f(Q)[n] \in Nat /\ g[n] <= f(Q)[n]
        <5>1. \A n \in S : Q \cap HalversOf(n)' = Q \cap HalversOf(n)
          BY <3>4, <3>5, <3>6
        <5>2. ASSUME NEW n \in S
              PROVE  g[n] = f(Q)[n] /\ g[n] \in Nat
          <6>1. g[n] = Halvings(Q \cap HalversOf(n)', table'[n]) /\ g[n] \in Nat
            BY <1>7
          <6>2. f(Q)[n] = Halvings(Q \cap HalversOf(n), table[n])
            BY <1>8
          <6> QED
            BY <2>1, <5>1, <6>1, <6>2
        <5> QED
          BY <5>2
      <4>3. Total(g, S) <= Total(f(Q), S)
        BY <1>1, <4>2, SumMonotone
      <4>4. Cardinality(I' \ Q) = Cardinality(I \ Q) + 1
        <5> DEFINE A == I \ Q
                   B == I' \ Q
        <5>1. A \ {t} = B \ {t} /\ t \in B /\ t \notin A /\ IsFiniteSet(A)
          BY <1>10, <2>7, <3>3, <3>6
        <5> HIDE DEF A, B
        <5>2. Cardinality(B) = Cardinality(A) + 1
          BY <5>1, OneMoreOrLess
        <5> QED
          BY <5>2 DEF A, B
      <4> DEFINE e == P * Cardinality(I \ Q)
                 l == Total(f(Q), S)
      <4>5. e \in Nat /\ P * Cardinality(I' \ Q) = e + P /\ l \in Nat /\ P \in Nat
        BY <1>1, <1>10, <4>4, Products
      <4>6. l + Cardinality(D) <= P + Counted + e + Cardinality(Adding) /\ Total(g, S) <= l
        BY <1>9, <4>1, <4>3
      <4> HIDE DEF e, l, P
      <4>7. Total(g, S) + Cardinality(D') <= P + Counted' + (e + P) + Cardinality(Adding')
        BY <1>10, <2>3, <2>5, <3>1, <4>5, <4>6
      <4> QED
        BY <4>5, <4>7
    <3>7. CASE t \in Q
      <4> DEFINE R == Q \ {t}
      <4>1. R \in SUBSET I
        BY <3>3 DEF I
      <4>2. \A n \in S : g[n] \in Nat /\ f(R)[n] \in Nat /\ 2 * g[n] <= f(R)[n]
        <5> SUFFICES ASSUME NEW n \in S
                     PROVE  2 * g[n] <= f(R)[n]
          BY <1>7, <1>8
        <5>1. Q \cap HalversOf(n)' = (R \cap HalversOf(n)) \cup {t}
          BY <3>4, <3>5, <3>7
        <5>2. /\ IsFiniteSet(R \cap HalversOf(n)) /\ t \notin R \cap HalversOf(n)
              /\ table[n] \in Nat
          BY <1>1, <1>2, <1>3
        <5> DEFINE v == Halvings(R \cap HalversOf(n), table[n])
        <5>3. v \in Nat
          BY <5>2, HalvingsFacts
        <5>4. Halvings(Q \cap HalversOf(n)', table[n]) = v \div 2
          BY <5>1, <5>2, HalvingsStep
        <5>5. g[n] = v \div 2 /\ f(R)[n] = v
          BY <1>7, <1>8, <2>1, <5>4
        <5> HIDE DEF v, R
        <5>6. 2 * (v \div 2) <= v
          BY <5>3
        <5> QED
          BY <5>5, <5>6
      <4>3. 2 * Total(g, S) <= Total(f(R), S)
        <5> HIDE DEF R
        <5> QED
          BY <1>1, <4>2, SumHalf
      <4>4. I' \ Q = I \ R
        BY <2>7, <3>3, <3>7
      <4> DEFINE e == P * Cardinality(I \ R)
                 l == Total(f(R), S)
      <4>5. e \in Nat /\ P * Cardinality(I' \ Q) = e /\ l \in Nat /\ P \in Nat
        <5> HIDE DEF R
        <5> QED
          BY <1>1, <1>10, <4>4, Products
      <4>6. l + Cardinality(D) <= P + Counted + e + Cardinality(Adding) /\ 2 * Total(g, S) <= l
        BY <1>9, <4>1, <4>3
      <4> HIDE DEF e, l, P
      <4>7. Total(g, S) + Cardinality(D') <= P + Counted' + e + Cardinality(Adding')
        BY <1>10, <2>3, <2>5, <2>6, <3>1, <4>5, <4>6
      <4> QED
        BY <4>5, <4>7
    <3> QED
      BY <3>6, <3>7
  <2> QED
    BY <2>8, <2>9
\* A halving of a cell of the row was foreseen, if the thread is one of those waited
\* for; at the row's last cell it is, as it will not be waited for any more.
<1>18. ASSUME NEW t \in Threads, HalveSwap(t)
       PROVE  Goal
  <2>0. PICK k : k = me[t].pos
    OBVIOUS
  <2>1. /\ me[t].at = "halveSwap" /\ k \in Cells /\ Others(t) /\ counter' = counter
        /\ \/ /\ table'[k] = table[k] \div 2
              /\ \A l \in Cells \ {k} : table'[l] = table[l]
              /\ \/ k = Depth * Width - 1 /\ me'[t].at = "idle"
                 \/ me'[t].at = "halveLoad" /\ me'[t].pos = k + 1
           \/ table' = table /\ me'[t].at = "halveSwap" /\ me'[t].pos = k
    BY <1>18, <2>0, HalveSwapEffect
  <2>2. k \in Nat /\ Halves(t) /\ k <= Depth * Width - 1
        /\ \A n \in Cells : n \in Nat /\ n <= Depth * Width - 1
    BY <2>1, ConstantFacts DEF Cells, Halves
  <2>3. /\ \A n : t \in HalversOf(n) <=> k <= n
        /\ t \in I <=> k < b + Width
    BY <1>5, <2>0, <2>2
  <2>4. D' = D /\ Adding' = Adding
    BY <1>5, <1>6, <2>1 DEF Others
  <2>5. I \ {t} = I' \ {t} /\ \A n : HalversOf(n) \ {t} = HalversOf(n)' \ {t}
    <3>1. \A u \in Threads \ {t} : me'[u] = me[u] /\ Halves(u)' = Halves(u)
      BY <2>1 DEF Others, Halves
    <3> QED
      BY <1>5, <1>6, <3>1
  <2>6. ASSUME NEW R \in SUBSET I, I' \ Q = I \ R,
               \A n \in S : g[n] <= f(R)[n]
        PROVE  Goal
    <3>1. Total(g, S) <= Total(f(R), S)
      BY <1>1, <1>7, <1>8, <2>6, SumMonotone
    <3>2. Counted' = Counted
      BY <1>4, <2>1
    <3> DEFINE e == P * Cardinality(I \ R)
               l == Total(f(R), S)
    <3>3. e \in Nat /\ P * Cardinality(I' \ Q) = e /\ l \in Nat /\ P \in Nat
      BY <1>1, <1>10, <2>6, Products
    <3>4. l + Cardinality(D) <= P + Counted + e + Cardinality(Adding) /\ Total(g, S) <= l
      BY <1>9, <3>1
    <3> HIDE DEF e, l, P
    <3>5. Total(g, S) + Cardinality(D') <= P + Counted' + e + Cardinality(Adding')
      BY <1>10, <2>4, <3>2, <3>3, <3>4
    <3> QED
      BY <3>3, <3>5
  <2>7. CASE me'[t].at = "halveSwap"
    <3>1. table' = table /\ me'[t].pos = k
      BY <2>1, <2>7
    <3>2. /\ \A n : t \in HalversOf(n)' <=> k <= n
          /\ t \in I' <=> k < b + Width
      BY <1>5, <2>7, <3>1 DEF Halves
    <3>3. I' = I /\ \A n : HalversOf(n)' = HalversOf(n)
      BY <2>3, <2>5, <3>2
    <3>4. \A n \in S : table'[n] <= table[n]
      BY <1>1, <1>3, <3>1
    <3> QED
      BY <1>11, <1>14, <2>1, <2>4, <3>3, <3>4
  <2>8. CASE me'[t].at # "halveSwap"
    <3>1. /\ table'[k] = table[k] \div 2
          /\ \A l \in Cells \ {k} : table'[l] = table[l]
          /\ \/ k = Depth * Width - 1 /\ me'[t].at = "idle"
             \/ me'[t].at = "halveLoad" /\ me'[t].pos = k + 1
      BY <2>1, <2>8
    <3>2. /\ \A n \in Cells : t \in HalversOf(n)' <=> k < n
          /\ t \in I' => k + 1 < b + Width
          /\ b + Width - 1 \in Cells /\ k + 1 < b + Width => t \in I'
      <4>1. CASE k = Depth * Width - 1 /\ me'[t].at = "idle"
        <5>1. b + Width - 1 \in Cells => ~(k + 1 < b + Width)
          BY <1>1, <2>2, <4>1
        <5> QED
          BY <1>5, <2>2, <4>1, <5>1 DEF Halves
      <4>2. CASE me'[t].at = "halveLoad" /\ me'[t].pos = k + 1
        <5>1. Halves(t)'
          BY <4>2 DEF Halves
        <5> QED
          BY <1>5, <2>2, <4>2, <5>1
      <4> QED
        BY <3>1, <4>1, <4>2
    <3>3. b + Width - 1 \in S
      BY <1>1
    <3>4. \A n \in S \ {k} : HalversOf(n)' = HalversOf(n) /\ table'[n] = table[n]
      <4> SUFFICES ASSUME NEW n \in S \ {k}
                   PROVE  HalversOf(n)' = HalversOf(n) /\ table'[n] = table[n]
        OBVIOUS
      <4>1. n \in Cells /\ n \in Nat /\ n # k
        BY <1>1, <2>2
      <4>2. t \in HalversOf(n)' <=> t \in HalversOf(n)
        BY <2>2, <2>3, <3>2, <4>1
      <4>3. HalversOf(n)' = HalversOf(n)
        BY <2>5, <4>2
      <4> QED
        BY <3>1, <4>1, <4>3
    <3>5. CASE k \notin S
      <4>1. \A n \in S : HalversOf(n)' = HalversOf(n) /\ table'[n] = table[n]
        BY <3>4, <3>5
      <4>2. t \in I' <=> t \in I
        <5>1. k # b + Width - 1
          BY <3>3, <3>5
        <5> QED
          BY <1>1, <2>2, <2>3, <3>2, <3>3, <5>1
      <4>3. I' = I
        BY <2>5, <4>2
      <4>4. \A n \in S : table'[n] <= table[n]
        BY <1>1, <1>3, <4>1
      <4> QED
        BY <1>11, <1>14, <2>1, <2>4, <4>1, <4>3, <4>4
    <3>6. CASE k \in S
      <4> DEFINE H == HalversOf(k)
      <4>1. t \in I /\ t \in H /\ t \notin H' /\ H \ {t} = H' \ {t} /\ k \in Cells
        <5>1. k <= k /\ ~(k < k) /\ k < b + Width
          BY <1>1, <2>2, <3>6
        <5> QED
          BY <1>1, <2>1, <2>3, <2>5, <3>2, <3>6, <5>1
      <4>2. IsFiniteSet(Q \cap H') /\ table[k] \in Nat /\ table[k] \div 2 \in Nat
            /\ table[k] \div 2 <= table[k]
        <5>1. \A v \in Nat : v \div 2 \in Nat /\ v \div 2 <= v
          OBVIOUS
        <5> QED
          BY <1>1, <1>2, <1>3, <3>6, <5>1
      <4>3. g[k] = Halvings(Q \cap H', table[k] \div 2)
        BY <1>7, <3>1, <3>6
      <4>4. \A R : f(R)[k] = Halvings(R \cap H, table[k])
        BY <1>8, <3>6
      <4>5. t \notin Q \cap H'
        BY <4>1
      <4>6. ASSUME NEW R, R \cap H = (Q \cap H') \cup {t}
            PROVE  g[k] = f(R)[k]
        <5>1. Halvings((Q \cap H') \cup {t}, table[k]) = Halvings(Q \cap H', table[k] \div 2)
          BY <4>2, <4>5, HalvingsStep
        <5> QED
          BY <4>3, <4>4, <4>6, <5>1
      <4>7. ASSUME NEW R, \A n \in S \ {k} : R \cap HalversOf(n) = Q \cap HalversOf(n)'
            PROVE  \A n \in S \ {k} : g[n] = f(R)[n]
        <5> SUFFICES ASSUME NEW n \in S \ {k}
                     PROVE  g[n] = f(R)[n]
          OBVIOUS
        <5>1. g[n] = Halvings(Q \cap HalversOf(n)', table'[n])
          BY <1>7
        <5>2. f(R)[n] = Halvings(R \cap HalversOf(n), table[n])
          BY <1>8
        <5>3. table'[n] = table[n] /\ R \cap HalversOf(n) = Q \cap HalversOf(n)'
          BY <3>4, <4>7
        <5> QED
          BY <5>1, <5>2, <5>3
      <4>8. g[k] \in Nat
        BY <1>7, <3>6
      <4>9. ASSUME NEW R, g[k] <= f(R)[k], \A n \in S \ {k} : g[n] = f(R)[n]
             PROVE  \A n \in S : g[n] <= f(R)[n]
        <5> SUFFICES ASSUME NEW n \in S
                     PROVE  g[n] <= f(R)[n]
          OBVIOUS
        <5>1. g[n] \in Nat
          BY <1>7
        <5>2. CASE n # k
          BY <4>9, <5>1, <5>2
        <5> QED
          BY <4>9, <5>2
      <4>10. CASE t \in I'
        <5>1. I' = I
          BY <2>5, <4>1, <4>10
        <5>2. \A n \in S \ {k} : g[n] = f(Q)[n]
          BY <3>4, <4>7
        <5>3. g[k] <= f(Q)[k]
          <6>1. CASE t \in Q
            <7>1. Q \cap H = (Q \cap H') \cup {t}
              BY <4>1, <6>1
            <7>2. g[k] = f(Q)[k]
              BY <4>6, <7>1
            <7> QED
              BY <4>8, <7>2
          <6>2. CASE t \notin Q
            <7>1. Q \cap H = Q \cap H'
              BY <4>1, <6>2
            <7>2. Halvings(Q \cap H', table[k] \div 2) <= Halvings(Q \cap H', table[k])
              BY <4>2, HalvingsFacts
            <7> QED
              BY <4>3, <4>4, <7>1, <7>2
          <6> QED
            BY <6>1, <6>2
        <5>4. \A n \in S : g[n] <= f(Q)[n]
          BY <4>9, <5>2, <5>3
        <5> QED
          BY <2>6, <5>1, <5>4 DEF I
      <4>11. CASE t \notin I'
        <5> DEFINE R == Q \cup {t}
        <5>1. R \in SUBSET I /\ I' \ Q = I \ R /\ t \notin Q
          BY <2>5, <4>1, <4>11 DEF I
        <5>2. k = b + Width - 1
          BY <1>1, <2>2, <3>2, <3>3, <3>6, <4>11
        <5>3. \A n \in S \ {k} : t \notin HalversOf(n)
          <6>1. \A n \in S \ {k} : n \in Nat /\ ~(k <= n)
            BY <1>1, <2>2, <5>2
          <6> QED
            BY <2>3, <6>1
        <5>4. \A n \in S \ {k} : R \cap HalversOf(n) = Q \cap HalversOf(n)'
          BY <3>4, <5>3
        <5>5. R \cap H = (Q \cap H') \cup {t}
          BY <4>1, <5>1
        <5> HIDE DEF R
        <5>6. g[k] = f(R)[k] /\ \A n \in S \ {k} : g[n] = f(R)[n]
          BY <4>6, <4>7, <5>4, <5>5
        <5>7. \A n \in S : g[n] <= f(R)[n]
          BY <4>8, <4>9, <5>6
        <5> QED
          BY <2>6, <5>1, <5>7
      <4> QED
        BY <4>10, <4>11
    <3> QED
      BY <3>5, <3>6
  <2> QED
    BY <2>7, <2>8
<1>19. ASSUME NEW t \in Threads, ClearCell(t) \/ Reset(t)
       PROVE  Goal
  <2>1. /\ Others(t) /\ counter' = counter
        /\ me[t].at \in {"clear", "idle"} /\ me'[t].at \in {"clear", "clearKey"}
        /\ \A n \in Cells : table'[n] <= table[n]
    <3>1. CASE ClearCell(t)
      <4>1. \A n \in Cells : table'[n] = 0 \/ table'[n] = table[n]
        BY <3>1, ClearCellEffect
      <4>2. \A n \in Cells : table'[n] <= table[n]
        BY <1>3, <4>1
      <4> QED
        BY <3>1, <4>2, ClearCellEffect
    <3>2. CASE Reset(t)
      BY <1>3, <3>2, ResetEffect
    <3> QED
      BY <1>19, <3>1, <3>2
  <2>2. I' = I /\ \A n : HalversOf(n)' = HalversOf(n)
    BY <1>12, <2>1 DEF Halves
  <2>3. D' \subseteq D /\ Adding' = Adding
    BY <1>5, <1>6, <2>1 DEF Others
  <2> QED
    BY <1>1, <1>11, <1>14, <2>1, <2>2, <2>3
\* A transition that is seen is one of the adds under way.
<1>20. ASSUME NEW t \in Threads, NEW h \in Inputs, Record(t, h)
       PROVE  Goal
  <2>1. /\ me[t].at = "idle" /\ table' = table /\ counter' = counter
        /\ \/ me' = me
           \/ Others(t) /\ me'[t].at = "addLoad" /\ me'[t].pos = 0
    BY <1>20, RecordEffect
  <2>2. \A n \in S : table'[n] <= table[n]
    BY <1>1, <1>3, <2>1
  <2>3. CASE me' = me
    <3>1. D' \subseteq D /\ Adding' = Adding /\ I' = I /\ \A n : HalversOf(n)' = HalversOf(n)
      BY <2>3 DEF D, I, ToAdd, Adding, HalversIn, HalversOf, Halves
    <3> QED
      BY <1>11, <1>14, <2>1, <2>2, <3>1
  <2>4. CASE Others(t) /\ me'[t].at = "addLoad" /\ me'[t].pos = 0
    <3>1. I' = I /\ \A n : HalversOf(n)' = HalversOf(n)
      BY <1>12, <2>1, <2>4 DEF Halves
    <3>2. t \in Adding' /\ t \notin Adding /\ Adding \ {t} = Adding' \ {t}
      BY <1>5, <1>6, <2>1, <2>4 DEF Others
    <3>3. t \notin D /\ D \ {t} = D' \ {t}
      BY <1>5, <1>6, <2>1, <2>4 DEF Others
    <3>4. Cardinality(Adding') = Cardinality(Adding) + 1
      BY <1>2, <3>2, OneMoreOrLess
    <3>5. Cardinality(D') <= Cardinality(D) + 1
      BY <1>2, <1>10, <3>3, OneMoreOrLess
    <3>6. \A n \in S : g[n] = f(Q)[n] /\ g[n] \in Nat
      BY <1>7, <1>8, <2>1, <3>1
    <3>7. \A n \in S : g[n] \in Nat /\ f(Q)[n] \in Nat /\ g[n] <= f(Q)[n]
      BY <3>6
    <3>8. Total(g, S) <= Total(f(Q), S)
      BY <1>1, <3>7, SumMonotone
    <3>9. Total(f(Q), S) + Cardinality(D)
            <= P + Counted + P * Cardinality(I \ Q) + Cardinality(Adding)
      BY <1>9, <3>1 DEF I
    <3>10. I' \ Q = I \ Q /\ Counted' = Counted
      BY <1>4, <2>1, <3>1
    <3> DEFINE e == P * Cardinality(I \ Q)
               l == Total(f(Q), S)
    <3>11. e \in Nat /\ P * Cardinality(I' \ Q) = e /\ l \in Nat /\ P \in Nat
      BY <1>1, <1>10, <3>10, Products
    <3>12. l + Cardinality(D) <= P + Counted + e + Cardinality(Adding) /\ Total(g, S) <= l
      BY <3>8, <3>9
    <3> HIDE DEF e, l, P
    <3>13. Total(g, S) + Cardinality(D') <= P + Counted' + e + Cardinality(Adding')
      BY <1>10, <3>4, <3>5, <3>10, <3>11, <3>12
    <3> QED
      BY <3>11, <3>13
  <2> QED
    BY <2>1, <2>3, <2>4
<1>21. ASSUME NEW t \in Threads,
              \/ HalveLoad(t) \/ Read(t) \/ Return(t) \/ ClearKey(t) \/ ClearCount(t)
              \/ \E from, to \in Inputs : Ask(t, from, to)
       PROVE  Goal
  <2>1. /\ Aside(t)
        /\ counter' = counter \/ counter' = 0
        /\ \/ ~Halves(t) /\ ~(Halves(t)')
           \/ Halves(t) /\ Halves(t)' /\ me'[t].pos = me[t].pos
    BY <1>21, AsideEffect DEF Halves
  <2>2. Counted <= Counted'
    <3>1. counter' = 0 => Counted' = P - 1
      BY <1>4
    <3>2. Counted <= P - 1
      BY <1>1, <1>3, <1>4
    <3> QED
      BY <1>14, <2>1, <3>1, <3>2
  <2> QED
    BY <1>13, <2>1, <2>2
<1>22. ASSUME UNCHANGED vars
       PROVE  Goal
  <2>1. me' = me /\ counter' = counter /\ table' = table
    BY <1>22 DEF vars
  <2>2. D' \subseteq D /\ Adding' = Adding /\ I' = I /\ \A n : HalversOf(n)' = HalversOf(n)
    BY <2>1 DEF D, I, ToAdd, Adding, HalversIn, HalversOf, Halves
  <2>3. \A n \in S : table'[n] <= table[n]
    BY <1>1, <1>3, <2>1
  <2> QED
    BY <1>11, <1>14, <2>1, <2>2, <2>3
<1>23. ASSUME Next
       PROVE  Goal
  <2> HIDE DEF Goal
  <2> QED
    BY <1>15, <1>16, <1>17, <1>18, <1>19, <1>20, <1>21, <1>23 DEF Next, Step
<1>24. Goal
  BY <1>22, <1>23
<1> QED
  BY <1>24 DEF S, g, I, D

\* With no halving waited for, that is the property.
LEMMA AgingHolds ==
    ASSUME Types, AgingKept
    PROVE  AgingKeepsUp
<1> SUFFICES ASSUME NEW i \in Rows
             PROVE  FoldFunctionOnSet(+, 0, table, {i * Width + c : c \in Columns})
                      <= AgePeriod + Counted
                           + AgePeriod * Cardinality(Halving) + Cardinality(Adding)
  BY DEF AgingKeepsUp
<1> DEFINE S == RowCells(i)
           f == Foreseen(i, {})
           I == HalversIn(i)
<1>1. FoldFunctionOnSet(+, 0, table, {i * Width + c : c \in Columns}) = Total(table, S)
  BY DEF Total, RowCells
<1>2. IsFiniteSet(S) /\ \A n \in S : table[n] \in Nat
  BY RowCellsFacts, ConstantFacts DEF Types, TypeOK
<1>3. \A n \in S : f[n] \in Nat /\ table[n] <= f[n]
  <2>1. \A n \in S : f[n] = Halvings({}, table[n])
    BY DEF Foreseen
  <2> HIDE DEF f, S
  <2>2. ASSUME NEW n \in S
        PROVE  f[n] \in Nat /\ table[n] <= f[n]
    <3>1. f[n] = table[n] /\ table[n] \in Nat
      BY <1>2, <2>1, HalvingsOfNone
    <3> QED
      BY <3>1
  <2> QED
    BY <2>2
<1>4. Total(f, S) + Cardinality(ToAdd(i))
        <= AgePeriod + Counted + AgePeriod * Cardinality(I \ {}) + Cardinality(Adding)
  BY DEF AgingKept
<1>5. I \ {} = I /\ I \subseteq Halving /\ Halving \subseteq Busy
  BY DEF HalversIn, Halves, Halving, Busy
<1>6. IsFiniteSet(Busy) /\ IsFiniteSet(Adding) /\ IsFiniteSet(ToAdd(i)) /\ IsFiniteSet(I)
  BY HalversInFinite DEF Types
<1> HIDE DEF S, f, I
<1>7. Total(table, S) \in Nat /\ Total(f, S) \in Nat /\ Total(table, S) <= Total(f, S)
  BY <1>2, <1>3, SumMonotone
<1>8. IsFiniteSet(Halving) /\ Cardinality(I) <= Cardinality(Halving)
  BY <1>5, <1>6, FS_Subset
<1>9. /\ Cardinality(Halving) \in Nat /\ Cardinality(I) \in Nat
      /\ Cardinality(Adding) \in Nat /\ Cardinality(ToAdd(i)) \in Nat
  BY <1>6, <1>8, FS_CardinalityType
<1>10. Counted \in Nat
  BY ConstantFacts, CounterFacts DEF Counted, Types, TypeOK
<1>11. /\ AgePeriod * Cardinality(I) <= AgePeriod * Cardinality(Halving)
       /\ AgePeriod * Cardinality(I) \in Nat /\ AgePeriod * Cardinality(Halving) \in Nat
       /\ AgePeriod \in Nat
  <2> DEFINE m == Cardinality(I)
             k == Cardinality(Halving)
  <2>1. m \in Nat /\ k \in Nat /\ m <= k /\ AgePeriod \in Nat
    BY <1>8, <1>9, ConstantFacts
  <2> HIDE DEF m, k
  <2>2. AgePeriod * m <= AgePeriod * k /\ AgePeriod * m \in Nat /\ AgePeriod * k \in Nat
    BY <2>1
  <2> QED
    BY <2>1, <2>2 DEF m, k
<1> DEFINE e == AgePeriod * Cardinality(I)
           e2 == AgePeriod * Cardinality(Halving)
<1>12. Total(f, S) + Cardinality(ToAdd(i)) <= AgePeriod + Counted + e + Cardinality(Adding)
  BY <1>4, <1>5
<1>13. e <= e2 /\ e \in Nat /\ e2 \in Nat /\ AgePeriod \in Nat
  BY <1>11
<1> HIDE DEF e, e2
<1>14. Total(table, S) <= AgePeriod + Counted + e2 + Cardinality(Adding)
  BY <1>7, <1>9, <1>10, <1>12, <1>13
<1> QED
  BY <1>1, <1>14 DEF e2

-----------------------------------------------------------------------------
(* A reset forgets.                                                        *)

\* What is being added may be in the table, and no last key from before a reset
\* outlives it.
AddsAreRecent ==
    \A t \in Threads :
        me[t].at \in {"addLoad", "addSwap"} => Index(me[t].hash, 0) \in recent
KeyIsRecent == older /\ lastKey # 0 => Forgetting # {}

Forgets == AddsAreRecent /\ KeyIsRecent /\ ResetForgets

\* A cell of a column that a reset has forgotten.
LEMMA StaysForgotten ==
    ASSUME Types, Types', ResetForgets, NEW h \in Hashes, NEW i \in Rows,
           NEW t \in Threads, Others(t), Index(h, 0) \notin recent,
           table'[CellOf(h, i)] <= table[CellOf(h, i)],
           \/ me[t].at # "clear"
           \/ /\ me'[t].at = "clear" /\ me'[t].pos = me[t].pos + 1
              /\ table'[me[t].pos] = 0
           \/ me[t].pos = Depth * Width - 1 /\ table'[me[t].pos] = 0
    PROVE  \/ table'[CellOf(h, i)] = 0
           \/ \E u \in Threads : me'[u].at = "clear" /\ me'[u].pos <= CellOf(h, i)
<1> DEFINE n == CellOf(h, i)
<1>1. /\ n \in Cells /\ table[n] \in Nat /\ table'[n] \in Nat
      /\ me[t].pos \in Cells /\ Depth * Width \in Nat /\ Cells \subseteq Nat
  <2>1. n \in Cells /\ Cells \subseteq Nat /\ Counters \subseteq Nat /\ Depth * Width \in Nat
    BY CellOfFacts, ConstantFacts DEF Cells
  <2>2. table \in [Cells -> Counters] /\ table' \in [Cells -> Counters]
    BY DEF Types, TypeOK
  <2>3. me[t].pos \in Cells
    BY TypesAt DEF Local
  <2> HIDE DEF n
  <2> QED
    BY <2>1, <2>2, <2>3
<1> HIDE DEF n
<1>2. CASE table[n] = 0
  BY <1>1, <1>2 DEF n
<1>3. ASSUME NEW u \in Threads, me[u].at = "clear", me[u].pos <= n
      PROVE  \/ table'[n] = 0
             \/ \E v \in Threads : me'[v].at = "clear" /\ me'[v].pos <= n
  <2>1. CASE u # t
    BY <1>3, <2>1 DEF Others
  <2>2. CASE u = t /\ me[t].pos = n
    BY <1>3, <2>2
  <2>3. CASE u = t /\ me[t].pos # n
    <3>1. me[t].pos + 1 <= n /\ me[t].pos # Depth * Width - 1
      BY <1>1, <1>3, <2>3 DEF Cells
    <3> QED
      BY <1>3, <2>3, <3>1
  <2> QED
    BY <2>1, <2>2, <2>3
<1> QED
  BY <1>2, <1>3 DEF ResetForgets, n

LEMMA ForgetsStep ==
    ASSUME Types, Types', Forgets, [Next]_vars
    PROVE  Forgets'
<1>0. /\ me \in [Threads -> Local] /\ table \in [Cells -> Counters]
      /\ Cells \subseteq Nat /\ Depth * Width \in Nat
      /\ \A n \in Cells : table[n] \in Nat /\ table'[n] \in Nat
      /\ \A h \in Hashes, i \in Rows : CellOf(h, i) \in Cells
  <2>1. me \in [Threads -> Local]
    BY DEF Types, TypeOK, Local
  <2>2. table \in [Cells -> Counters] /\ table' \in [Cells -> Counters]
    BY DEF Types, TypeOK
  <2>3. Cells \subseteq Nat /\ Counters \subseteq Nat /\ Depth * Width \in Nat
    BY ConstantFacts DEF Cells
  <2> QED
    BY <2>1, <2>2, <2>3, CellOfFacts
<1>1. ASSUME UNCHANGED vars
      PROVE  Forgets'
  BY <1>1 DEF vars, Forgets, AddsAreRecent, KeyIsRecent, ResetForgets, Forgetting,
              Index, CellOf
\* A step that leaves the last key and the histories alone, starts no add and
\* raises no counter but that of the add it is in.
<1>2. ASSUME NEW t \in Threads, Others(t), UNCHANGED <<lastKey, recent, older>>,
             me'[t].at \in {"addLoad", "addSwap"} =>
               me[t].at \in {"addLoad", "addSwap"} /\ me'[t].hash = me[t].hash,
             me[t].at \in {"clear", "clearKey"} => me'[t].at \in {"clear", "clearKey"},
             me[t].at = "clear" =>
               /\ me[t].pos \in Cells /\ table'[me[t].pos] = 0
               /\ \/ me[t].pos = Depth * Width - 1
                  \/ me'[t].at = "clear" /\ me'[t].pos = me[t].pos + 1,
             \A h \in Hashes, i \in Rows :
               \/ table'[CellOf(h, i)] <= table[CellOf(h, i)]
               \/ Index(h, 0) \in recent
      PROVE  Forgets'
  <2>1. AddsAreRecent'
    BY <1>2 DEF Forgets, AddsAreRecent, Others, Index
  <2>2. KeyIsRecent'
    BY <1>2 DEF Forgets, KeyIsRecent, Forgetting, Others
  <2>3. ASSUME NEW h \in Hashes, NEW i \in Rows, Index(h, 0) \notin recent
        PROVE  \/ table'[CellOf(h, i)] = 0
               \/ \E u \in Threads : me'[u].at = "clear" /\ me'[u].pos <= CellOf(h, i)
    BY <1>2, <2>3, StaysForgotten DEF Forgets
  <2>4. ResetForgets'
    BY <1>2, <2>3 DEF ResetForgets, Index, CellOf
  <2> QED
    BY <2>1, <2>2, <2>4 DEF Forgets
\* The same where the table is left alone too.
<1>3. ASSUME NEW t \in Threads, Others(t), UNCHANGED <<table, lastKey, recent, older>>,
             me'[t].at \in {"addLoad", "addSwap"} =>
               me[t].at \in {"addLoad", "addSwap"} /\ me'[t].hash = me[t].hash,
             me[t].at \notin {"clear", "clearKey"}
      PROVE  Forgets'
  <2>1. \A n \in Cells : table'[n] <= table[n]
    BY <1>0, <1>3
  <2> QED
    BY <1>0, <1>2, <1>3, <2>1
<1>4. ASSUME NEW t \in Threads, Step(t)
      PROVE  Forgets'
  <2>1. CASE AddLoad(t)
    BY <1>3, <2>1, AddLoadEffect DEF AddLoad
  <2>2. CASE AddSwap(t)
    <3> DEFINE k == CellOf(me[t].hash, me[t].pos)
    <3>1. /\ me[t].at = "addSwap" /\ me[t].pos \in Rows /\ me[t].hash \in Hashes
          /\ k \in Cells /\ Others(t)
          /\ \/ table' = table /\ PastRow(t)
             \/ /\ PastRow(t) /\ \A l \in Cells \ {k} : table'[l] = table[l]
             \/ /\ table' = table /\ me'[t].at = "addSwap" /\ me'[t].hash = me[t].hash
      BY <2>2, AddSwapEffect
    <3>2. UNCHANGED <<lastKey, recent, older>>
      BY <2>2 DEF AddSwap
    <3>3. /\ me'[t].at \in {"addLoad", "addSwap", "count"}
          /\ me'[t].hash = me[t].hash
      BY <3>1 DEF PastRow
    <3>4. ASSUME NEW h \in Hashes, NEW i \in Rows
          PROVE  \/ table'[CellOf(h, i)] <= table[CellOf(h, i)]
                 \/ Index(h, 0) \in recent
      <4>1. CASE CellOf(h, i) # k
        <5>1. CellOf(h, i) \in Cells \ {k}
          BY <1>0, <4>1
        <5> HIDE DEF k
        <5> DEFINE n == CellOf(h, i)
        <5>2. table'[n] = table[n] \/ table' = table
          BY <3>1, <5>1
        <5>3. n \in Cells
          BY <5>1
        <5> HIDE DEF n
        <5>4. table'[n] <= table[n]
          BY <1>0, <5>2, <5>3
        <5> QED
          BY <5>4 DEF n
      <4>2. CASE CellOf(h, i) = k
        <5>1. Index(h, 0) = Index(me[t].hash, 0)
          BY <3>1, <4>2, CellOfFacts
        <5> QED
          BY <3>1, <5>1 DEF Forgets, AddsAreRecent
      <4> QED
        BY <4>1, <4>2
    <3> QED
      BY <1>2, <3>1, <3>2, <3>3, <3>4
  <2>3. CASE Count(t)
    BY <1>3, <2>3, CountEffect DEF Count
  <2>4. CASE HalveSwap(t)
    <3>1. /\ me[t].at = "halveSwap" /\ Others(t)
          /\ me'[t].at \in {"idle", "halveLoad", "halveSwap"}
      BY <2>4, HalveSwapEffect
    <3>2. UNCHANGED <<lastKey, recent, older>>
      BY <2>4 DEF HalveSwap
    <3>3. ASSUME NEW n \in Cells
          PROVE  table'[n] <= table[n]
      <4>1. table'[n] \in {table[n], table[n] \div 2}
        BY <2>4, HalveSwapEffect
      <4>2. \A v \in Nat : v \div 2 <= v /\ v <= v
        OBVIOUS
      <4> QED
        BY <1>0, <4>1, <4>2
    <3> QED
      BY <1>0, <1>2, <3>1, <3>2, <3>3
  <2>5. CASE ClearCell(t)
    <3>1. /\ me[t].at = "clear" /\ me[t].pos \in Cells /\ Others(t)
          /\ me'[t].at \in {"clear", "clearKey"}
          /\ table'[me[t].pos] = 0 /\ \A k \in Cells \ {me[t].pos} : table'[k] = table[k]
      BY <2>5, ClearCellEffect
    <3>2. /\ UNCHANGED <<lastKey, recent, older>>
          /\ \/ me[t].pos = Depth * Width - 1
             \/ me'[t].at = "clear" /\ me'[t].pos = me[t].pos + 1
      BY <1>0, <2>5 DEF ClearCell, Go, At
    <3>3. ASSUME NEW n \in Cells
          PROVE  table'[n] <= table[n]
      <4>1. table'[n] \in {table[n], 0}
        BY <3>1
      <4> QED
        BY <1>0, <4>1
    <3> QED
      BY <1>0, <1>2, <3>1, <3>2, <3>3
  <2>6. CASE HalveLoad(t) \/ Read(t) \/ Return(t) \/ ClearCount(t)
    <3>1. Aside(t) /\ me[t].at \notin {"clear", "clearKey"}
      BY <2>6, AsideEffect
    <3>2. UNCHANGED <<lastKey, recent, older>>
      BY <2>6 DEF HalveLoad, Read, Return, ClearCount
    <3> QED
      BY <1>3, <3>1, <3>2 DEF Aside
  <2>7. CASE ClearKey(t)
    <3>1. Aside(t) /\ me[t].at = "clearKey" /\ me'[t].at = "clearCount"
      BY <2>7, AsideEffect
    <3>2. lastKey' = 0 /\ UNCHANGED <<recent, older>>
      BY <2>7 DEF ClearKey
    <3>3. AddsAreRecent'
      BY <3>1, <3>2 DEF Aside, Others, Forgets, AddsAreRecent, Index
    <3>4. ResetForgets'
      BY <3>1, <3>2 DEF Aside, Others, Forgets, ResetForgets, Index, CellOf
    <3> QED
      BY <3>2, <3>3, <3>4 DEF Forgets, KeyIsRecent
  <2> QED
    BY <1>4, <2>1, <2>2, <2>3, <2>4, <2>5, <2>6, <2>7 DEF Step
<1>5. ASSUME NEW t \in Threads, NEW g \in Inputs, Record(t, g)
      PROVE  Forgets'
  <2> DEFINE link == Link(lastKey, g)
  <2>1. /\ me[t].at = "idle" /\ table' = table /\ older' = FALSE
        /\ \/ lastKey = 0 /\ UNCHANGED <<me, recent>>
           \/ /\ lastKey # 0 /\ Others(t)
              /\ me'[t].at = "addLoad" /\ me'[t].hash = link
              /\ recent' = recent \cup {Index(link, 0)}
    <3>1. me[t].at = "idle" /\ table' = table /\ older' = FALSE
      BY <1>5 DEF Record
    <3>2. CASE lastKey = 0
      BY <1>5, <3>1, <3>2 DEF Record
    <3>3. CASE lastKey # 0
      <4>1. ~(older /\ Forgetting = {})
        BY <3>3 DEF Forgets, KeyIsRecent
      <4> QED
        BY <1>0, <1>5, <3>1, <3>3, <4>1 DEF Record, Go, Others, At
    <3> QED
      BY <3>2, <3>3
  <2> HIDE DEF link
  <2>2. KeyIsRecent'
    BY <2>1 DEF KeyIsRecent
  <2>3. AddsAreRecent'
    BY <2>1 DEF Forgets, AddsAreRecent, Others, Index
  <2>4. \A u \in Threads : me[u].at = "clear" => me'[u] = me[u]
    BY <2>1 DEF Others
  <2>5. recent \subseteq recent'
    BY <2>1
  <2>6. ResetForgets'
    BY <2>1, <2>4, <2>5 DEF Forgets, ResetForgets, Index, CellOf
  <2> QED
    BY <2>2, <2>3, <2>6 DEF Forgets
<1>6. ASSUME NEW t \in Threads, NEW from \in Inputs, NEW to \in Inputs, Ask(t, from, to)
      PROVE  Forgets'
  <2>1. Aside(t) /\ me[t].at = "idle"
    BY <1>6, AsideEffect
  <2>2. UNCHANGED <<lastKey, recent, older>>
    BY <1>6 DEF Ask
  <2> QED
    BY <1>3, <2>1, <2>2 DEF Aside
\* Its cells are all still to be cleared.
<1>7. ASSUME NEW t \in Threads, Reset(t)
      PROVE  Forgets'
  <2>1. /\ me[t].at = "idle" /\ me'[t].at = "clear" /\ me'[t].pos = 0 /\ Others(t)
        /\ recent' = {Index(me[u].hash, 0) : u \in Adders}
    BY <1>0, <1>7 DEF Reset, Go, Others, At
  <2>2. AddsAreRecent'
    BY <2>1 DEF AddsAreRecent, Adders, Others, Index
  <2>3. KeyIsRecent'
    BY <2>1 DEF KeyIsRecent, Forgetting
  <2>4. \A h \in Hashes, i \in Rows : me'[t].pos <= CellOf(h, i)
    BY <1>0, <2>1 DEF Cells
  <2>5. ResetForgets'
    BY <2>1, <2>4 DEF ResetForgets, CellOf, Index
  <2> QED
    BY <2>2, <2>3, <2>5 DEF Forgets
<1>8. ASSUME Next
      PROVE  Forgets'
  BY <1>4, <1>5, <1>6, <1>7, <1>8 DEF Next
<1> QED
  BY <1>1, <1>8

-----------------------------------------------------------------------------
(* The specification.                                                      *)

\* The inductive invariant.
OracleInv ==
    /\ Types
    /\ AllNoted /\ PrefetchIsJustified
    /\ Clean /\ CreditHeld /\ CreditPassed
    /\ AgingKept
    /\ Forgets

LEMMA InvInit == Init => OracleInv
<1> SUFFICES ASSUME Init
             PROVE  OracleInv
  OBVIOUS
<1>1. Types
  BY TypesInit
<1>2. /\ \A t \in Threads : me[t].at = "idle"
      /\ \A n \in Cells : table[n] = 0
      /\ \A c \in Columns : noted[c] = 0 /\ owed[c] = 0
      /\ clean = {}
  BY DEF Init, Idle, At
<1>3. ASSUME NEW h \in Hashes, NEW i \in Rows
      PROVE  /\ table[CellOf(h, i)] = 0 /\ noted[Index(h, 0)] = 0 /\ owed[Index(h, 0)] = 0
             /\ Cardinality(Awaiting(Index(h, 0), i)) = 0
             /\ Cardinality(Passed(Index(h, 0), i)) = 0
             /\ Halvings(HalversOf(CellOf(h, i)), 0) \in Nat
  <2>1. CellOf(h, i) \in Cells /\ Index(h, 0) \in Columns
    BY CellOfFacts
  <2>2. Awaiting(Index(h, 0), i) = {} /\ Passed(Index(h, 0), i) = {}
    BY <1>2 DEF Awaiting, Passed
  <2>3. IsFiniteSet(HalversOf(CellOf(h, i))) /\ 0 \in Nat
    BY <1>1, HalversFinite DEF Types
  <2>4. Halvings(HalversOf(CellOf(h, i)), 0) \in Nat
    BY <2>3, HalvingsFacts
  <2> QED
    BY <1>2, <2>1, <2>2, <2>4, FS_EmptySet
<1>4. AllNoted /\ CreditHeld /\ CreditPassed
  BY <1>3 DEF AllNoted, CreditHeld, CreditPassed
<1>5. PrefetchIsJustified
  BY <1>2 DEF PrefetchIsJustified, Recommended
<1>6. Clean
  BY <1>2 DEF Clean, CleanAdds, CleanLoads, ResetOwes
<1>7. ASSUME NEW i \in Rows, NEW Q \in SUBSET HalversIn(i)
      PROVE  Total(Foreseen(i, Q), RowCells(i)) + Cardinality(ToAdd(i))
               <= AgePeriod + Counted
                    + AgePeriod * Cardinality(HalversIn(i) \ Q) + Cardinality(Adding)
  <2> DEFINE S == RowCells(i)
             f == Foreseen(i, Q)
  <2>1. IsFiniteSet(S) /\ S \subseteq Cells
    BY RowCellsFacts
  <2>2. \A n \in S : f[n] = 0
    <3>1. \A n \in S : f[n] = Halvings(Q \cap HalversOf(n), table[n])
      BY DEF Foreseen
    <3> HIDE DEF f, S
    <3>2. ASSUME NEW n \in S
          PROVE  f[n] = 0
      <4>1. table[n] = 0 /\ IsFiniteSet(Q \cap HalversOf(n)) /\ 0 \in Nat
        BY <1>1, <1>2, <2>1, HalversFinite DEF Types
      <4>2. /\ Halvings(Q \cap HalversOf(n), 0) \in Nat
            /\ Halvings(Q \cap HalversOf(n), 0) <= 0
        BY <4>1, HalvingsFacts
      <4> QED
        BY <3>1, <4>1, <4>2
    <3> QED
      BY <3>2
  <2>3. HalversIn(i) \ Q = {} /\ ToAdd(i) = {} /\ Adding = {}
    BY <1>2 DEF HalversIn, Halves, ToAdd, Adding
  <2> HIDE DEF f, S
  <2>4. Total(f, S) = 0
    <3>1. \A n \in S : f[n] \in Nat /\ f[n] \in Nat /\ 2 * f[n] <= f[n]
      BY <2>2
    <3>2. 2 * Total(f, S) <= Total(f, S) /\ Total(f, S) \in Nat
      BY <2>1, <3>1, SumHalf, SumIsSize
    <3> QED
      BY <3>2
  <2>5. Counted \in Nat /\ AgePeriod \in Nat /\ AgePeriod * 0 = 0
    BY <1>1, ConstantFacts, CounterFacts DEF Counted, Types, TypeOK
  <2>6. Total(f, S) + 0 <= AgePeriod + Counted + AgePeriod * 0 + 0
    BY <2>4, <2>5
  <2> QED
    BY <2>3, <2>6, FS_EmptySet DEF f, S
<1>8. AgingKept
  BY <1>7 DEF AgingKept
<1>9. Forgets
  BY <1>2, <1>3 DEF Init, Forgets, AddsAreRecent, KeyIsRecent, ResetForgets
<1> QED
  BY <1>1, <1>4, <1>5, <1>6, <1>8, <1>9 DEF OracleInv

LEMMA InvNext == OracleInv /\ [Next]_vars => OracleInv'
<1> SUFFICES ASSUME OracleInv, [Next]_vars
             PROVE  OracleInv'
  OBVIOUS
<1>1. Types'
  BY TypesNext DEF OracleInv
<1>2. AllNoted'
  BY <1>1, NotedStep DEF OracleInv
<1>3. PrefetchIsJustified'
  BY <1>1, PrefetchStep DEF OracleInv
<1>4. Clean'
  BY <1>1, CleanStep DEF OracleInv
<1>5. (CreditHeld /\ CreditPassed)'
  BY <1>1, <1>4, CreditStep DEF OracleInv
<1>6. AgingKept'
  BY <1>1, AgingStep DEF OracleInv
<1>7. Forgets'
  BY <1>1, ForgetsStep DEF OracleInv
<1> QED
  BY <1>1, <1>2, <1>3, <1>4, <1>5, <1>6, <1>7 DEF OracleInv

\* The invariant holds of every behaviour.
LEMMA SpecInv == Spec => []OracleInv
<1>1. Init => OracleInv
  BY InvInit
<1>2. OracleInv /\ [Next]_vars => OracleInv'
  BY InvNext
<1> QED
  BY <1>1, <1>2, PTL DEF Spec

\* The oracle keeps its type, whatever swaps fail and are tried again
\* (oracle.rs, AtomicSketch, SharedOracle).
THEOREM SharedTypes == Spec => []TypeOK
<1>1. OracleInv => TypeOK
  BY DEF OracleInv, Types
<1> QED
  BY <1>1, SpecInv, PTL

\* No advice without reason (oracle.rs, SharedOracle::should_prefetch): see
\* PrefetchIsJustified.
THEOREM AdviceHasReason == Spec => []PrefetchIsJustified
<1>1. OracleInv => PrefetchIsJustified
  BY DEF OracleInv
<1> QED
  BY <1>1, SpecInv, PTL

\* No increment is lost to another (oracle.rs, AtomicSketch::add): see
\* CreditIsKept.
THEOREM NoIncrementIsLost == Spec => []CreditIsKept
<1>1. ASSUME OracleInv
      PROVE  CreditIsKept
  <2> SUFFICES ASSUME NEW h \in Hashes, NEW i \in Rows
               PROVE  table[CellOf(h, i)] >= owed[Index(h, 0)]
    BY DEF CreditIsKept
  <2> DEFINE v == table[CellOf(h, i)]
             o == owed[Index(h, 0)]
             H == HalversOf(CellOf(h, i))
  <2>1. o <= Halvings(H, v)
    BY <1>1 DEF OracleInv, CreditHeld
  <2>2. IsFiniteSet(H)
    BY <1>1, HalversFinite DEF OracleInv, Types
  <2>3. v \in Nat /\ o \in Nat
    BY <1>1, CellOfFacts, ConstantFacts DEF OracleInv, Types, TypeOK, HistoryType
  <2> HIDE DEF v, o, H
  <2>4. Halvings(H, v) \in Nat /\ Halvings(H, v) <= v
    BY <2>2, <2>3, HalvingsFacts
  <2>5. v >= o
    BY <2>1, <2>3, <2>4
  <2> QED
    BY <2>5 DEF v, o
<1>2. OracleInv => CreditIsKept
  BY <1>1
<1> QED
  BY <1>2, SpecInv, PTL

\* Aging keeps up, however many threads halve at once and however late (oracle.rs,
\* SharedOracle::record, AtomicSketch::halve): see AgingKeepsUp.
THEOREM AgingIsNotOutrun == Spec => []AgingKeepsUp
<1>1. OracleInv => AgingKeepsUp
  BY AgingHolds DEF OracleInv
<1> QED
  BY <1>1, SpecInv, PTL

\* A reset forgets, whatever halvings and adds lag behind it (oracle.rs,
\* SharedOracle::reset): see ResetForgets.
THEOREM ResetsForget == Spec => []ResetForgets
<1>1. OracleInv => ResetForgets
  BY DEF OracleInv, Forgets
<1> QED
  BY <1>1, SpecInv, PTL

===============================================================================
