----------------------------- MODULE Transitions -----------------------------
(***************************************************************************)
(* What the two oracles (oracle.rs) count: a transition from one key to    *)
(* the next has a hash of its own, and is counted in a sketch.             *)
(***************************************************************************)
EXTENDS CountMin

CONSTANTS
    Inputs,      \* the hashes an oracle is called with
    Mix,         \* mix of two hashes, as a function
    Threshold,   \* PREFETCH_THRESHOLD (3)
    AgePeriod    \* transitions between two agings (50000)

ASSUME TransitionAssumption ==
    /\ Inputs \subseteq Hashes
    /\ Mix \in [Hashes \X Hashes -> Hashes]
    /\ Threshold \in Counters \ {0}
    /\ AgePeriod \in Nat \ {0}

\* The hash of the transition, mix(from, to).
Link(from, to) == Mix[<<from, to>>]

=============================================================================
