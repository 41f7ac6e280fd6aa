--------------------------- MODULE CountMinSketch ---------------------------
(***************************************************************************)
(* The count-min sketch as its callers drive it: any sequence of adds,     *)
(* halvings and clears.  Its specification is a counter of its own for     *)
(* every hash, of the same width and aged by the same halvings: the sketch *)
(* never reads below it, and reads above it only through the hashes that   *)
(* share its columns.                                                      *)
(***************************************************************************)
EXTENDS CountMin, Functions

CONSTANT Counts  \* the counts add_count is called with (a u8; add passes 1)

ASSUME CountsAssumption == Counts \subseteq Counters

VARIABLES
    sketch,
    own      \* history: the dedicated counter of each hash

vars == <<sketch, own>>

Init ==
    /\ sketch = EmptySketch
    /\ own = [h \in Hashes |-> 0]

Add(h, n) ==
    /\ sketch' = AddCount(sketch, h, n)
    /\ own' = [own EXCEPT ![h] = SaturatingAdd(@, n, CounterMax)]

Halve ==
    /\ sketch' = Halved(sketch)
    /\ own' = [h \in Hashes |-> own[h] \div 2]

Clear ==
    /\ sketch' = EmptySketch
    /\ own' = [h \in Hashes |-> 0]

Next == Halve \/ Clear \/ \E h \in Hashes, n \in Counts : Add(h, n)

Spec == Init /\ [][Next]_vars

-----------------------------------------------------------------------------
\* The sketch and the dedicated counters keep their types.
TypeOK ==
    /\ sketch \in Sketches
    /\ own \in [Hashes -> Counters]

\* No underestimate (sketch.rs, estimate): a hash is never read below a
\* counter of its own, not after saturation and not after any number of
\* halvings, which round each counter down on its own.
NeverUnderestimates ==
    \A h \in Hashes : Estimate(sketch, h) >= own[h]

Sharing(h, i) == {g \in Hashes : Index(g, i) = Index(h, i)}

\* The error is only what the other hashes of a column bring (sketch.rs, halve):
\* halving floors a shared counter once where the dedicated ones are floored
\* one by one, and however often that happens it leaves a counter at most one
\* per further hash of the column above their sum.
ErrorOnlyFromSharing ==
    \A h \in Hashes, i \in Rows :
        sketch.table[i][Index(h, i)]
            <= FoldFunctionOnSet(+, 0, own, Sharing(h, i))
                 + Cardinality(Sharing(h, i)) - 1

\* All rows tell the same (sketch.rs, index): the rows of a table differ by a
\* rotation, so hashes that collide in one row collide in every row and a hash
\* reads the same counter in each.  The depth of the sketch corrects nothing.
RowsAgree ==
    \A h \in Hashes, i \in Rows :
        sketch.table[i][Index(h, i)] = sketch.table[0][Index(h, 0)]

\* What `index` promises (sketch.rs, "Different hash for each row"): a hash is
\* overestimated only if the rows disagree about whom it shares a column with,
\* so that one and the same company of hashes is not to blame in every row.
DepthSeparates ==
    \A h \in Hashes :
        Estimate(sketch, h) > own[h]
            => \E i \in Rows : Sharing(h, i) # Sharing(h, 0)

=============================================================================
