---------------------------- MODULE MarkovOracle ----------------------------
(***************************************************************************)
(* The oracle for one thread (oracle.rs, MarkovOracle): the same sketch of *)
(* transitions as SharedOracle's behind &mut self, so that every operation *)
(* is one step.  It counts a transition before it asks whether to age, and *)
(* a key's hash may be 0.                                                  *)
(***************************************************************************)
EXTENDS Transitions

\* No last key.
None == Word

VARIABLES
    transitions,   \* the table of the AtomicSketch
    lastKeyHash,
    total,         \* total_transitions; bound: modulo AgePeriod, as it is used
    previous,      \* history: the key recorded last since the last reset
    since,         \* history: the transitions since then, modulo AgePeriod
    owned,           \* history: a counter of its own for every pair of keys
    noted          \* history: transitions since the last reset, by column of
                   \* row 0; bound: up to Threshold

oracleVars == <<transitions, lastKeyHash, total, previous, since, owned, noted>>

Pairs == Inputs \X Inputs

\* AtomicSketch's operations on a table, which keeps no total.
Plain(table) == [table |-> table, total |-> 0]
AddOne(table, h) == AddCount(Plain(table), h, 1).table
Aged(table) == Halved(Plain(table)).table

NoneOwned == [p \in Pairs |-> 0]
NoneNoted == [c \in Columns |-> 0]

OracleInit ==
    /\ transitions = EmptySketch.table
    /\ lastKeyHash = None
    /\ total = 0
    /\ previous = None /\ since = 0
    /\ owned = NoneOwned /\ noted = NoneNoted

\* What happened, as an observer keeps it.
Noted(h) ==
    LET link == <<previous, h>>
        n(p) == SaturatingAdd(owned[p], IF p = link THEN 1 ELSE 0, CounterMax)
    IN  /\ previous' = h
        /\ IF previous = None THEN UNCHANGED <<since, owned, noted>>
           ELSE /\ since' = (since + 1) % AgePeriod
                /\ owned' = [p \in Pairs |-> IF since' = 0 THEN n(p) \div 2 ELSE n(p)]
                /\ noted' = [noted EXCEPT ![Index(Link(previous, h), 0)] =
                                SaturatingAdd(@, 1, Threshold)]

\* Mutant: the age is tested before the transition is counted, as
\* SharedOracle's fetch_add does.
RecordAgesFirst(h) ==
    /\ lastKeyHash' = h
    /\ IF lastKeyHash = None THEN UNCHANGED <<transitions, total>>
       ELSE LET added == AddOne(transitions, Link(lastKeyHash, h))
            IN  /\ total' = (total + 1) % AgePeriod
                /\ transitions' = IF total = 0 THEN Aged(added) ELSE added
    /\ Noted(h)

Record(h) ==
    /\ lastKeyHash' = h
    /\ IF lastKeyHash = None THEN UNCHANGED <<transitions, total>>
       ELSE LET added == AddOne(transitions, Link(lastKeyHash, h))
            IN  /\ total' = (total + 1) % AgePeriod
                /\ transitions' = IF total' = 0 THEN Aged(added) ELSE added
    /\ Noted(h)

Forgotten ==
    /\ previous' = None /\ since' = 0
    /\ owned' = NoneOwned /\ noted' = NoneNoted

\* Mutant: the key before the reset is kept.
ResetKeepsKey ==
    /\ transitions' = EmptySketch.table
    /\ total' = 0
    /\ UNCHANGED lastKeyHash
    /\ Forgotten

Reset ==
    /\ transitions' = EmptySketch.table
    /\ lastKeyHash' = None
    /\ total' = 0
    /\ Forgotten

OracleNext == Reset \/ \E h \in Inputs : Record(h)

OracleSpec == OracleInit /\ [][OracleNext]_oracleVars

TransitionFreq(from, to) == Estimate(Plain(transitions), Link(from, to))
ShouldPrefetch(from, to) == TransitionFreq(from, to) >= Threshold

-----------------------------------------------------------------------------
OracleTypeOK ==
    /\ transitions \in [Rows -> [Columns -> Counters]]
    /\ lastKeyHash \in Inputs \cup {None}
    /\ total \in 0 .. AgePeriod - 1

\* No transition is forgotten before its time (oracle.rs, MarkovOracle::record
\* and transition_freq): a pair reads at least what a counter of its own would,
\* halved only when a whole period of transitions has been counted since the
\* reset.  So the first transitions of a period count in full, and a pair seen
\* Threshold times in a period is recommended before the period ends.
KnowsTransitions ==
    \A p \in Pairs : TransitionFreq(p[1], p[2]) >= owned[p]

\* Advice is earned since the last reset (oracle.rs, MarkovOracle::reset and
\* should_prefetch): whatever is recommended shares its column with Threshold
\* transitions made since then.  The step across a reset is no transition.
AdviceIsEarned ==
    \A p \in Pairs :
        ShouldPrefetch(p[1], p[2]) => noted[Index(Link(p[1], p[2]), 0)] >= Threshold

=============================================================================
