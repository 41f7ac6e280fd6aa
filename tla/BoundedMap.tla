----------------------------- MODULE BoundedMap -----------------------------
(***************************************************************************)
(* Maps from keys to values as values: what they hold, and what a put may  *)
(* leave behind when a map is limited in size.                             *)
(***************************************************************************)
EXTENDS Naturals, FiniteSets

CONSTANTS
    Keys,
    Values,
    NoValue      \* the answer None, and the absence of a key

EmptyMap == [k \in Keys |-> NoValue]
Held(m) == {k \in Keys : m[k] # NoValue}
HeldCount(m) == Cardinality(Held(m))
Forget(m, k) == [m EXCEPT ![k] = NoValue]
Store(m, k, v) == [m EXCEPT ![k] = v]

\* The maps a put of <<k, v>> may leave behind, for a map m limited to c keys.
AfterPut(m, c, k, v) ==
    IF k \in Held(m) \/ HeldCount(m) < c
    THEN {Store(m, k, v)}
    ELSE IF c = 0 THEN {m} ELSE {Store(Forget(m, lost), k, v) : lost \in Held(m)}

=============================================================================
